---------------------------- MODULE Spec2Model ----------------------------
(***************************************************************************)
(* A model of the astral repository core: the content-addressed object     *)
(* store, branch refs and HEAD, snapshot creation, and the merge engine    *)
(* (tree-level three-way merge over the line-oriented Myers differ, merge  *)
(* state, continue and abort), the history operations, ancestry queries   *)
(* and Fetch.                                                              *)
(*                                                                         *)
(* Digests.  The digest of an object is modelled by the framed object      *)
(* itself: two objects have the same digest iff they are the same framed   *)
(* bytes (a collision-free hash).  A store is the set of digests it holds. *)
(*                                                                         *)
(* Texts.  A file content is a record [lines, nl]: the bytes are the lines *)
(* joined by "\n", followed by one more "\n" when nl is TRUE.  Lines are   *)
(* non-empty and hold no newline.                                          *)
(***************************************************************************)
EXTENDS Integers, Sequences, FiniteSets, TLC

(***************************************************************************)
(* Bounds of the model.                                                    *)
(***************************************************************************)
MaxLines == 2        \* longest text (in lines) the merge inputs are drawn from
MaxCommits == 4      \* commit objects a repository may hold before Save, Merge and ContinueMerge stop

(***************************************************************************)
(* Line-oriented texts.                                                    *)
(***************************************************************************)
Alphabet == {"a", "b"}
NulLine == "nul"     \* a line that holds a NUL byte

Text(ls, nl) == [lines |-> ls, nl |-> nl]
EmptyText == Text(<<>>, FALSE)

SeqsUpTo(S, n) == UNION {[1..k -> S] : k \in 0..n}

\* every text of at most n lines over the alphabet, with or without a final newline
TextsUpTo(n) ==
    {Text(ls, nl) : ls \in SeqsUpTo(Alphabet, n), nl \in BOOLEAN} \ {Text(<<>>, TRUE)}

BinaryText == Text(<<NulLine>>, FALSE)

\* diff.splitLines / merge.splitLines: the lines of a text, the empty segment after
\* a final newline dropped
splitLines(text) == text.lines

\* strings.Join(lines, "\n"), as a text
joinLines(ls) == Text(ls, FALSE)

(***************************************************************************)
(* internal/diff: Myers diff.                                              *)
(***************************************************************************)
EditEqual == "equal"
EditInsert == "insert"
EditDelete == "delete"
Edit(t, s) == [type |-> t, text |-> s]

Context == 3

\* a Go map read: the zero value for a missing key
Lookup(v, k) == IF k \in DOMAIN v THEN v[k] ELSE 0

Prepend(e, s) == <<e>> \o s

\* the diagonal loop of backtrack: emits equal edits while x > prevX and y > prevY
RECURSIVE backtrackDiagonal(_, _, _, _, _, _)
backtrackDiagonal(a, x, y, prevX, prevY, edits) ==
    IF x > prevX /\ y > prevY
    THEN IF x - 1 >= Len(a)
         THEN [panic |-> TRUE, x |-> x, y |-> y, edits |-> edits]
         ELSE backtrackDiagonal(a, x - 1, y - 1, prevX, prevY,
                                Prepend(Edit(EditEqual, a[x]), edits))
    ELSE [panic |-> FALSE, x |-> x, y |-> y, edits |-> edits]

\* the trailing loop of backtrack: equal edits while x > 0 and y > 0
RECURSIVE backtrackRest(_, _, _, _)
backtrackRest(a, x, y, edits) ==
    IF x > 0 /\ y > 0
    THEN backtrackRest(a, x - 1, y - 1, Prepend(Edit(EditEqual, a[x]), edits))
    ELSE [panic |-> FALSE, edits |-> edits]

\* the saved V of level d, read in backtrack
traceAt(trace, d) == trace[d + 1]

\* backtrack: the edit script from the trace; an index out of range is a panic
RECURSIVE backtrackFrom(_, _, _, _, _, _, _)
backtrackFrom(a, b, trace, d, x, y, edits) ==
    IF d > 0
    THEN LET v == traceAt(trace, d)
             k == x - y
             prevK == IF k = -d \/ (k # d /\ Lookup(v, k - 1) < Lookup(v, k + 1))
                      THEN k + 1 ELSE k - 1
             prevX == Lookup(v, prevK)
             prevY == prevX - prevK
             g == backtrackDiagonal(a, x, y, prevX, prevY, <<>>)
             e1 == g.edits \o edits
         IN  IF g.panic THEN [panic |-> TRUE, edits |-> <<>>]
             ELSE IF g.x = prevX
                  THEN \* insert: y--, b[y]
                       IF g.y - 1 < 0 \/ g.y - 1 >= Len(b)
                       THEN [panic |-> TRUE, edits |-> <<>>]
                       ELSE backtrackFrom(a, b, trace, d - 1, g.x, g.y - 1,
                                          Prepend(Edit(EditInsert, b[g.y]), e1))
                  ELSE \* delete: x--, a[x]
                       IF g.x - 1 < 0 \/ g.x - 1 >= Len(a)
                       THEN [panic |-> TRUE, edits |-> <<>>]
                       ELSE backtrackFrom(a, b, trace, d - 1, g.x - 1, g.y,
                                          Prepend(Edit(EditDelete, a[g.x]), e1))
    ELSE backtrackRest(a, x, y, edits)

backtrack(a, b, trace, d) == backtrackFrom(a, b, trace, d, Len(a), Len(b), <<>>)

\* the copy of V that myersAlgorithm saves on entering level d: the diagonals
\* -d, -d+2, .., d as V holds them before the level is computed
saveTrace(v, d) == [k \in {kk \in (-d)..d : (kk + d) % 2 = 0} |-> v[k]]

\* extend the diagonal as far as the lines agree
RECURSIVE snake(_, _, _, _)
snake(a, b, x, y) ==
    IF x < Len(a) /\ y < Len(b) /\ a[x + 1] = b[y + 1]
    THEN snake(a, b, x + 1, y + 1)
    ELSE x

\* the loops of myersAlgorithm over d and, within a level, over k
RECURSIVE myersLevel(_, _, _, _, _, _)
myersLevel(a, b, d, k, v, trace) ==
    LET max == Len(a) + Len(b) IN
    IF d > max THEN [panic |-> FALSE, edits |-> <<>>]
    ELSE IF k > d
         THEN IF d + 1 > max THEN [panic |-> FALSE, edits |-> <<>>]
              ELSE myersLevel(a, b, d + 1, -(d + 1), v, Append(trace, saveTrace(v, d + 1)))
         ELSE LET x0 == IF k = -d \/ (k # d /\ v[k - 1] < v[k + 1])
                        THEN v[k + 1] ELSE v[k - 1] + 1
                  x == snake(a, b, x0, x0 - k)
                  y == x - k
                  v1 == [v EXCEPT ![k] = x]
              IN  IF x >= Len(a) /\ y >= Len(b)
                  THEN backtrack(a, b, trace, d)
                  ELSE myersLevel(a, b, d, k + 2, v1, trace)

\* myersAlgorithm: [panic, edits]
myersAlgorithm(a, b) ==
    LET n == Len(a)
        m == Len(b)
        max == n + m
        v0 == [k \in (-max)..max |-> 0]
    IN  IF n = 0 /\ m = 0 THEN [panic |-> FALSE, edits |-> <<>>]
        ELSE IF n = 0
             THEN [panic |-> FALSE, edits |-> [i \in 1..m |-> Edit(EditInsert, b[i])]]
        ELSE IF m = 0
             THEN [panic |-> FALSE, edits |-> [i \in 1..n |-> Edit(EditDelete, a[i])]]
        ELSE myersLevel(a, b, 0, 0, v0, <<saveTrace(v0, 0)>>)

\* groupIntoHunks: one step of the loop over the edits, on the loop's variables
NoHunk == [OldStart |-> 0, OldCount |-> 0, NewStart |-> 0, NewCount |-> 0, Edits |-> <<>>]

hasMoreChanges(edits, i, context) ==
    \E j \in (i + 1)..Len(edits) : j <= i + context /\ edits[j].type # EditEqual

\* the context lines copied in front of a new hunk
contextBeforeEdits(oldLines, oldIdx, contextBefore) ==
    [n \in 1..contextBefore |-> Edit(EditEqual, oldLines[oldIdx - contextBefore + n])]

hunkStep(st, edits, i, oldLines, context) ==
    LET edit == edits[i] IN
    IF edit.type = EditEqual
    THEN IF ~st.open
         THEN [st EXCEPT !.contextBefore = IF st.contextBefore + 1 > context THEN context
                                           ELSE st.contextBefore + 1,
                         !.oldIdx = st.oldIdx + 1, !.newIdx = st.newIdx + 1]
         ELSE IF ~hasMoreChanges(edits, i, context) /\ st.contextAfter + 1 >= context
              THEN [st EXCEPT !.hunks = Append(st.hunks, st.cur), !.open = FALSE,
                              !.cur = NoHunk, !.contextBefore = 0, !.contextAfter = 0,
                              !.oldIdx = st.oldIdx + 1, !.newIdx = st.newIdx + 1]
              ELSE [st EXCEPT !.cur.Edits = Append(st.cur.Edits, edit),
                              !.cur.OldCount = st.cur.OldCount + 1,
                              !.cur.NewCount = st.cur.NewCount + 1,
                              !.contextAfter = st.contextAfter + 1,
                              !.oldIdx = st.oldIdx + 1, !.newIdx = st.newIdx + 1]
    ELSE LET cur0 == IF st.open THEN st.cur
                     ELSE [OldStart |-> st.oldIdx - st.contextBefore,
                           NewStart |-> st.newIdx - st.contextBefore,
                           OldCount |-> st.contextBefore,
                           NewCount |-> st.contextBefore,
                           Edits |-> contextBeforeEdits(oldLines, st.oldIdx, st.contextBefore)]
             cur1 == [cur0 EXCEPT !.Edits = Append(cur0.Edits, edit)]
         IN  IF edit.type = EditDelete
             THEN [st EXCEPT !.open = TRUE, !.contextAfter = 0,
                             !.cur = [cur1 EXCEPT !.OldCount = cur1.OldCount + 1],
                             !.oldIdx = st.oldIdx + 1]
             ELSE [st EXCEPT !.open = TRUE, !.contextAfter = 0,
                             !.cur = [cur1 EXCEPT !.NewCount = cur1.NewCount + 1],
                             !.newIdx = st.newIdx + 1]

RECURSIVE hunkLoop(_, _, _, _, _)
hunkLoop(st, edits, i, oldLines, context) ==
    IF i > Len(edits) THEN st
    ELSE hunkLoop(hunkStep(st, edits, i, oldLines, context), edits, i + 1, oldLines, context)

\* groupIntoHunks: the edits grouped into hunks with `context` lines of context
groupIntoHunks(edits, oldLines, newLines, context) ==
    IF Len(edits) = 0 THEN <<>>
    ELSE LET st0 == [hunks |-> <<>>, open |-> FALSE, cur |-> NoHunk, oldIdx |-> 0,
                     newIdx |-> 0, contextBefore |-> 0, contextAfter |-> 0]
             Flushed(st) == IF st.open THEN Append(st.hunks, st.cur) ELSE st.hunks
         IN  Flushed(hunkLoop(st0, edits, 1, oldLines, context))

\* MyersDiff: [panic, Hunks]
MyersDiff(oldText, newText) ==
    LET oldLines == splitLines(oldText)
        newLines == splitLines(newText)
        Grouped(r) ==
            IF r.panic THEN [panic |-> TRUE, Hunks |-> <<>>]
            ELSE [panic |-> FALSE,
                  Hunks |-> groupIntoHunks(r.edits, oldLines, newLines, Context)]
    IN  Grouped(myersAlgorithm(oldLines, newLines))

(***************************************************************************)
(* internal/merge: three-way content merge.                                *)
(***************************************************************************)
\* the edits recorded for base line i (a Go map read: none for a missing key)
changesAt(changes, i) == IF i \in DOMAIN changes THEN changes[i] ELSE <<>>

addChange(changes, i, edit) ==
    [k \in DOMAIN changes \cup {i} |-> IF k = i THEN Append(changesAt(changes, i), edit)
                                       ELSE changes[k]]

\* buildChangeMap, the loop over the edits of one hunk
RECURSIVE hunkChanges(_, _, _, _)
hunkChanges(changes, edits, j, baseIdx) ==
    IF j > Len(edits) THEN changes
    ELSE IF edits[j].type = EditInsert
         THEN hunkChanges(addChange(changes, baseIdx, edits[j]), edits, j + 1, baseIdx)
         ELSE hunkChanges(addChange(changes, baseIdx, edits[j]), edits, j + 1, baseIdx + 1)

RECURSIVE changeMapFrom(_, _, _)
changeMapFrom(changes, hunks, h) ==
    IF h > Len(hunks) THEN changes
    ELSE changeMapFrom(hunkChanges(changes, hunks[h].Edits, 1, hunks[h].OldStart), hunks, h + 1)

\* buildChangeMap: base line index -> the edits that touch it
buildChangeMap(hunks) == changeMapFrom(<<>>, hunks, 1)

\* editsIdentical: same length, same types and contents
editsIdentical(a, b) ==
    /\ Len(a) = Len(b)
    /\ \A i \in 1..Len(a) : a[i].type = b[i].type /\ a[i].text = b[i].text

\* the lines one side's edits contribute at base line `line`
RECURSIVE applyOneSide(_, _, _)
applyOneSide(edits, j, line) ==
    IF j > Len(edits) THEN <<>>
    ELSE (IF edits[j].type = EditInsert THEN <<edits[j].text>>
          ELSE IF edits[j].type = EditEqual THEN <<line>>
          ELSE <<>>) \o applyOneSide(edits, j + 1, line)

\* the lines identical edits of both sides contribute
RECURSIVE applyIdentical(_, _)
applyIdentical(edits, j) ==
    IF j > Len(edits) THEN <<>>
    ELSE (IF edits[j].type # EditDelete THEN <<edits[j].text>> ELSE <<>>)
         \o applyIdentical(edits, j + 1)

ConflictPlaceholder == "<<<CONFLICT>>>"

\* mergeLinesWithConflicts: [merged, conflicts], conflicts the base line indexes in conflict
RECURSIVE mergeLinesFrom(_, _, _, _, _, _)
mergeLinesFrom(base, i, ourChanges, theirChanges, merged, conflicts) ==
    IF i >= Len(base) THEN [merged |-> merged, conflicts |-> conflicts]
    ELSE LET ourEdits == changesAt(ourChanges, i)
             theirEdits == changesAt(theirChanges, i)
         IN  IF Len(ourEdits) = 0 /\ Len(theirEdits) = 0
             THEN mergeLinesFrom(base, i + 1, ourChanges, theirChanges,
                                 Append(merged, base[i + 1]), conflicts)
             ELSE IF Len(ourEdits) = 0
             THEN mergeLinesFrom(base, i + 1, ourChanges, theirChanges,
                                 merged \o applyOneSide(theirEdits, 1, base[i + 1]), conflicts)
             ELSE IF Len(theirEdits) = 0
             THEN mergeLinesFrom(base, i + 1, ourChanges, theirChanges,
                                 merged \o applyOneSide(ourEdits, 1, base[i + 1]), conflicts)
             ELSE IF editsIdentical(ourEdits, theirEdits)
             THEN mergeLinesFrom(base, i + 1, ourChanges, theirChanges,
                                 merged \o applyIdentical(ourEdits, 1), conflicts)
             ELSE mergeLinesFrom(base, i + 1, ourChanges, theirChanges,
                                 Append(merged, ConflictPlaceholder), Append(conflicts, i))

mergeLinesWithConflicts(base, ourChanges, theirChanges) ==
    mergeLinesFrom(base, 0, ourChanges, theirChanges, <<>>, <<>>)

\* a merge result: [panic, HasConflict, Content]
MergeResult(conflict, content) == [panic |-> FALSE, HasConflict |-> conflict, Content |-> content]
MergePanic == [panic |-> TRUE, HasConflict |-> FALSE, Content |-> EmptyText]

\* the text with conflict markers: it is never stored as a blob, so only its
\* presence is kept
MarkerText == Text(<<ConflictPlaceholder>>, TRUE)

\* mergeContent: both sides changed
mergeContent(base, ours, theirs) ==
    LET Built(r) ==
            IF Len(r.conflicts) > 0 THEN MergeResult(TRUE, MarkerText)
            ELSE MergeResult(FALSE, Text(r.merged, Len(r.merged) > 0))
        Merged(diffOurs, diffTheirs) ==
            IF diffOurs.panic \/ diffTheirs.panic THEN MergePanic
            ELSE Built(mergeLinesWithConflicts(splitLines(base),
                                               buildChangeMap(diffOurs.Hunks),
                                               buildChangeMap(diffTheirs.Hunks)))
    IN  Merged(MyersDiff(base, ours), MyersDiff(base, theirs))

\* isBinary: a NUL byte in the content (the texts of the model hold no other
\* non-text byte)
isBinary(content) == \E i \in 1..Len(content.lines) : content.lines[i] = NulLine

\* ThreeWayMerge
ThreeWayMerge(base, ours, theirs) ==
    IF isBinary(base) \/ isBinary(ours) \/ isBinary(theirs)
    THEN IF ours # theirs THEN MergeResult(TRUE, MarkerText) ELSE MergeResult(FALSE, ours)
    ELSE IF ours = theirs THEN MergeResult(FALSE, ours)
    ELSE IF ours = base THEN MergeResult(FALSE, theirs)
    ELSE IF theirs = base THEN MergeResult(FALSE, ours)
    ELSE mergeContent(base, ours, theirs)

(***************************************************************************)
(* internal/core: objects.  A digest is the framed object it is the hash   *)
(* of; ZeroHash is the all-zero digest.                                    *)
(***************************************************************************)
ZeroHash == [type |-> "zero"]
IsZero(h) == h = ZeroHash

ModeRegular == "100644"
ModeExecutable == "100755"

Blob(data) == [type |-> "blob", data |-> data]
TreeEntry(mode, name, hash) == [Mode |-> mode, Name |-> name, Hash |-> hash]
Tree(entries) == [type |-> "tree", Entries |-> entries]
Commit(tree, parents, timestamp, message) ==
    [type |-> "commit", Tree |-> tree, Parents |-> parents,
     Timestamp |-> timestamp, Message |-> message]

\* Store.Put: the digest of the framed object; the store then holds it
HashOf(obj) == obj
Put(objects, obj) == objects \cup {HashOf(obj)}

\* Store.GetCommit / Store.GetTree succeed on a stored object of that type
HasCommit(objects, h) == h \in objects /\ h.type = "commit"
HasTree(objects, h) == h \in objects /\ h.type = "tree"

Paths == {"f1", "f2"}

\* every ordering of a finite set
Orders(S) == {q \in [1..Cardinality(S) -> S] : \A i, j \in DOMAIN q : i # j => q[i] # q[j]}

(***************************************************************************)
(* internal/merge: ancestry.                                               *)
(***************************************************************************)
\* the parents a walk enqueues at hash: none when the commit cannot be read
parentsToVisit(objects, hash) ==
    IF HasCommit(objects, hash)
    THEN SelectSeq(hash.Parents, LAMBDA p : ~IsZero(p))
    ELSE <<>>

\* the first loop of FindLCA: every digest a breadth-first walk from the queue visits
RECURSIVE ancestorWalk(_, _, _)
ancestorWalk(objects, queue, visited) ==
    IF Len(queue) = 0 THEN visited
    ELSE LET hash == Head(queue) IN
         IF hash \in visited THEN ancestorWalk(objects, Tail(queue), visited)
         ELSE ancestorWalk(objects, Tail(queue) \o parentsToVisit(objects, hash),
                           visited \cup {hash})

\* a second loop that walks depth first: the parents of a commit are visited before
\* the commits that were waiting
RECURSIVE commonWalkDepthFirst(_, _, _, _)
commonWalkDepthFirst(objects, queue, visited, ancestors1) ==
    IF Len(queue) = 0 THEN [err |-> "NoCommonAncestor", hash |-> ZeroHash]
    ELSE LET hash == Head(queue) IN
         IF hash \in visited THEN commonWalkDepthFirst(objects, Tail(queue), visited, ancestors1)
         ELSE IF hash \in ancestors1 THEN [err |-> "", hash |-> hash]
         ELSE commonWalkDepthFirst(objects, parentsToVisit(objects, hash) \o Tail(queue),
                                   visited \cup {hash}, ancestors1)

\* the second loop of FindLCA: the first digest of the walk that is in ancestors1
RECURSIVE commonWalk(_, _, _, _)
commonWalk(objects, queue, visited, ancestors1) ==
    IF Len(queue) = 0 THEN [err |-> "NoCommonAncestor", hash |-> ZeroHash]
    ELSE LET hash == Head(queue) IN
         IF hash \in visited THEN commonWalk(objects, Tail(queue), visited, ancestors1)
         ELSE IF hash \in ancestors1 THEN [err |-> "", hash |-> hash]
         ELSE commonWalk(objects, Tail(queue) \o parentsToVisit(objects, hash),
                         visited \cup {hash}, ancestors1)

\* a FindLCA that skips its first walk: commit1 alone counts as its ancestors
FindLCAUnwalked(objects, commit1, commit2) ==
    commonWalk(objects, <<commit2>>, {}, {commit1})

FindLCA(objects, commit1, commit2) ==
    commonWalk(objects, <<commit2>>, {}, ancestorWalk(objects, <<commit1>>, {}))

\* the loop of IsAncestor
RECURSIVE ancestorSearch(_, _, _, _)
ancestorSearch(objects, queue, visited, ancestor) ==
    IF Len(queue) = 0 THEN FALSE
    ELSE LET hash == Head(queue) IN
         IF hash \in visited THEN ancestorSearch(objects, Tail(queue), visited, ancestor)
         ELSE IF hash = ancestor THEN TRUE
         ELSE ancestorSearch(objects, Tail(queue) \o parentsToVisit(objects, hash),
                             visited \cup {hash}, ancestor)

\* an IsAncestor that looks at the commit and its parents only
IsAncestorDirect(objects, ancestor, commit) ==
    \/ ancestor = commit
    \/ \E i \in DOMAIN parentsToVisit(objects, commit) :
          parentsToVisit(objects, commit)[i] = ancestor

IsAncestor(objects, ancestor, commit) ==
    IF ancestor = commit THEN TRUE
    ELSE ancestorSearch(objects, <<commit>>, {}, ancestor)

\* CanFastForward with the two commits exchanged
CanFastForwardSwapped(objects, base, target) == IsAncestor(objects, target, base)

CanFastForward(objects, base, target) == IsAncestor(objects, base, target)

(***************************************************************************)
(* internal/repository: tree-level three-way merge.                        *)
(***************************************************************************)
\* buildFileMap: name -> digest, a later entry of the same name winning
buildFileMap(tree) ==
    [n \in {tree.Entries[i].Name : i \in DOMAIN tree.Entries} |->
        LET idx == CHOOSE i \in DOMAIN tree.Entries :
                        /\ tree.Entries[i].Name = n
                        /\ \A j \in DOMAIN tree.Entries : tree.Entries[j].Name = n => j <= i
        IN  tree.Entries[idx].Hash]

ConflictInfo(path, type) == [Path |-> path, Type |-> type, Resolved |-> FALSE]

\* the outcome of the merge loop's body for one file:
\*   kind "ours" | "theirs" | "merged": mergedFiles gets `hash` and the file is auto-merged
\*   kind "drop": the file is in neither list
\*   kind "conflict": a conflict of type `ctype`
\*   kind "panic": the content merge crashed
FileOutcome(kind, hash, ctype) == [kind |-> kind, hash |-> hash, ctype |-> ctype]

\* a content merge that always settles for our side
mergeFileContentOurs(baseHash, ourHash, theirHash) ==
    [panic |-> FALSE, HasConflict |-> FALSE, Content |-> ourHash.data]

\* mergeFileContent: the three blobs' contents through ThreeWayMerge
mergeFileContent(baseHash, ourHash, theirHash) ==
    ThreeWayMerge(baseHash.data, ourHash.data, theirHash.data)

\* a merge loop body in which our deletion wins over their change
mergeOneFileDeleteWins(baseFiles, ourFiles, theirFiles, filename) ==
    LET baseExists == filename \in DOMAIN baseFiles
        ourExists == filename \in DOMAIN ourFiles
        theirExists == filename \in DOMAIN theirFiles
        baseHash == IF baseExists THEN baseFiles[filename] ELSE ZeroHash
        ourHash == IF ourExists THEN ourFiles[filename] ELSE ZeroHash
        theirHash == IF theirExists THEN theirFiles[filename] ELSE ZeroHash
        Settled(result) ==
            IF result.panic THEN FileOutcome("panic", ZeroHash, "")
            ELSE IF result.HasConflict THEN FileOutcome("conflict", ZeroHash, "content")
            ELSE FileOutcome("merged", HashOf(Blob(result.Content)), "")
    IN  IF ~baseExists /\ ourExists /\ ~theirExists THEN FileOutcome("ours", ourHash, "")
        ELSE IF ~baseExists /\ ~ourExists /\ theirExists
             THEN FileOutcome("theirs", theirHash, "")
        ELSE IF ~baseExists /\ ourExists /\ theirExists
             THEN IF ourHash = theirHash THEN FileOutcome("ours", ourHash, "")
                  ELSE FileOutcome("conflict", ZeroHash, "add-add")
        ELSE IF baseExists /\ ~ourExists /\ ~theirExists THEN FileOutcome("drop", ZeroHash, "")
        ELSE IF baseExists /\ ~ourExists /\ theirExists
             THEN FileOutcome("drop", ZeroHash, "")
        ELSE IF baseExists /\ ourExists /\ ~theirExists
             THEN IF baseHash = ourHash THEN FileOutcome("drop", ZeroHash, "")
                  ELSE FileOutcome("conflict", ZeroHash, "modify-delete")
        ELSE IF baseExists /\ ourExists /\ theirExists
             THEN IF ourHash = theirHash THEN FileOutcome("ours", ourHash, "")
                  ELSE IF baseHash = ourHash THEN FileOutcome("theirs", theirHash, "")
                  ELSE IF baseHash = theirHash THEN FileOutcome("ours", ourHash, "")
                  ELSE Settled(mergeFileContent(baseHash, ourHash, theirHash))
        ELSE FileOutcome("drop", ZeroHash, "")

mergeOneFile(baseFiles, ourFiles, theirFiles, filename) ==
    LET baseExists == filename \in DOMAIN baseFiles
        ourExists == filename \in DOMAIN ourFiles
        theirExists == filename \in DOMAIN theirFiles
        baseHash == IF baseExists THEN baseFiles[filename] ELSE ZeroHash
        ourHash == IF ourExists THEN ourFiles[filename] ELSE ZeroHash
        theirHash == IF theirExists THEN theirFiles[filename] ELSE ZeroHash
        Settled(result) ==
            IF result.panic THEN FileOutcome("panic", ZeroHash, "")
            ELSE IF result.HasConflict THEN FileOutcome("conflict", ZeroHash, "content")
            ELSE FileOutcome("merged", HashOf(Blob(result.Content)), "")
    IN  IF ~baseExists /\ ourExists /\ ~theirExists THEN FileOutcome("ours", ourHash, "")
        ELSE IF ~baseExists /\ ~ourExists /\ theirExists
             THEN FileOutcome("theirs", theirHash, "")
        ELSE IF ~baseExists /\ ourExists /\ theirExists
             THEN IF ourHash = theirHash THEN FileOutcome("ours", ourHash, "")
                  ELSE FileOutcome("conflict", ZeroHash, "add-add")
        ELSE IF baseExists /\ ~ourExists /\ ~theirExists THEN FileOutcome("drop", ZeroHash, "")
        ELSE IF baseExists /\ ~ourExists /\ theirExists
             THEN IF baseHash = theirHash THEN FileOutcome("drop", ZeroHash, "")
                  ELSE FileOutcome("conflict", ZeroHash, "delete-modify")
        ELSE IF baseExists /\ ourExists /\ ~theirExists
             THEN IF baseHash = ourHash THEN FileOutcome("drop", ZeroHash, "")
                  ELSE FileOutcome("conflict", ZeroHash, "modify-delete")
        ELSE IF baseExists /\ ourExists /\ theirExists
             THEN IF ourHash = theirHash THEN FileOutcome("ours", ourHash, "")
                  ELSE IF baseHash = ourHash THEN FileOutcome("theirs", theirHash, "")
                  ELSE IF baseHash = theirHash THEN FileOutcome("ours", ourHash, "")
                  ELSE Settled(mergeFileContent(baseHash, ourHash, theirHash))
        ELSE FileOutcome("drop", ZeroHash, "")

\* the union of the three file maps' names
allFiles(baseFiles, ourFiles, theirFiles) ==
    DOMAIN baseFiles \cup DOMAIN ourFiles \cup DOMAIN theirFiles

\* what the merge loop has built: the conflicts and auto-merged names in the order
\* met, the merged file map, the blobs it stored, and the branch taken per file
EmptyMerge ==
    [panic |-> FALSE, conflicts |-> <<>>, autoMerged |-> <<>>, mergedFiles |-> <<>>,
     stored |-> {}, outcomes |-> <<>>]

mergeStep(acc, baseFiles, ourFiles, theirFiles, filename) ==
    LET Recorded(o, seen) ==
            IF o.kind = "panic" THEN [seen EXCEPT !.panic = TRUE]
            ELSE IF o.kind = "conflict"
                 THEN [seen EXCEPT !.conflicts =
                                       Append(acc.conflicts, ConflictInfo(filename, o.ctype))]
            ELSE IF o.kind = "drop" THEN seen
            ELSE [seen EXCEPT !.autoMerged = Append(acc.autoMerged, filename),
                              !.mergedFiles =
                                  [n \in DOMAIN acc.mergedFiles \cup {filename} |->
                                      IF n = filename THEN o.hash ELSE acc.mergedFiles[n]],
                              !.stored = IF o.kind = "merged" THEN acc.stored \cup {o.hash}
                                         ELSE acc.stored]
        Seen(o) ==
            Recorded(o, [acc EXCEPT !.outcomes =
                                        [n \in DOMAIN acc.outcomes \cup {filename} |->
                                            IF n = filename THEN o ELSE acc.outcomes[n]]])
    IN  Seen(mergeOneFile(baseFiles, ourFiles, theirFiles, filename))

\* the merge loop of doThreeWayMerge over the files in the order the map yields
\* them; a panic ends it
RECURSIVE mergeLoop(_, _, _, _, _, _)
mergeLoop(acc, baseFiles, ourFiles, theirFiles, order, i) ==
    IF i > Len(order) \/ acc.panic THEN acc
    ELSE mergeLoop(mergeStep(acc, baseFiles, ourFiles, theirFiles, order[i]),
                   baseFiles, ourFiles, theirFiles, order, i + 1)

mergeTrees(baseFiles, ourFiles, theirFiles, order) ==
    mergeLoop(EmptyMerge, baseFiles, ourFiles, theirFiles, order, 1)

(***************************************************************************)
(* The repository: its state.                                              *)
(***************************************************************************)
VARIABLES
    objects,      \* the object store: the digests it holds
    refs,         \* refs/heads/<name> -> digest, or NoRef when the file is missing
    HEAD,         \* the HEAD file: symbolic [kind "ref", name] or raw text
    mergeState,   \* the MERGE_STATE file, or NoMergeState
    workdir,      \* the working tree: path -> file, or Absent
    last,         \* the repository operation just run, with its result; else NoOp
    mIn,          \* merge laboratory: the three file maps under test
    mFwd,         \* merge laboratory: the merge of (base, ours, theirs)
    mRev,         \* merge laboratory: the merge of (base, theirs, ours)
    disk,         \* object files: digest -> what the file at objectPath(digest) holds
    cache,        \* the store's cache: the digests it holds an object for
    returned,     \* the digests some Put, or some SetRef, has returned for
    refFile,      \* one ref file: what it holds, or NoRef when it is missing
    callers,      \* concurrent callers of the store or of the ref: each one's call and position
    query,        \* ancestry queries: the two digests asked about
    answer,       \* ancestry queries: what IsAncestor and FindLCA returned
    remote,       \* the objects a remote serves
    fetch         \* a running Fetch: its queue, visited set and status

repoVars == <<objects, refs, HEAD, mergeState, workdir>>
labVars == <<mIn, mFwd, mRev>>
diskVars == <<disk, cache, returned, refFile, callers>>
peerVars == <<query, answer, remote, fetch>>
otherVars == <<diskVars, peerVars>>
vars == <<objects, refs, HEAD, mergeState, workdir, last, mIn, mFwd, mRev,
          disk, cache, returned, refFile, callers, query, answer, remote, fetch>>

BranchNames == {"main", "feature"}
NameInputs == BranchNames                      \* names a caller passes
Messages == {"m"}                              \* commit messages a caller passes

NoRef == [type |-> "noref"]
NoMergeState == [type |-> "nostate"]
Absent == [type |-> "absent"]
File(data, exec) == [type |-> "file", data |-> data, exec |-> exec]

SymbolicHead(name) == [kind |-> "ref", name |-> name]
RawHead(text) == [kind |-> "raw", text |-> text]

\* the contents a user writes into the working tree
WorkTexts == {Text(<<"a">>, FALSE), Text(<<"b">>, FALSE)}
\* the paths of the working tree, and what the user writes there
WorkPaths == {"f1"}
FileInputs == {File(t, FALSE) : t \in WorkTexts}
NoOp == [op |-> "none", arg |-> <<>>, res |-> ""]
Op(op, arg, res) == [op |-> op, arg |-> arg, res |-> res]

Commits(objs) == {o \in objs : o.type = "commit"}

\* time.Now().Unix() as the operations read it: the operations of a behaviour all run
\* within one second, the case in which equal commits get equal digests
now == 0

(***************************************************************************)
(* internal/repository: refs and HEAD.                                     *)
(***************************************************************************)
Result(err, hash) == [err |-> err, hash |-> hash]

\* GetRef on refs/heads/<name>
GetRef(rs, name) ==
    IF rs[name] = NoRef THEN Result("BranchNotFound", ZeroHash) ELSE Result("", rs[name])

\* SetRef on refs/heads/<name>
SetRef(rs, name, hash) == [rs EXCEPT ![name] = hash]

\* GetCurrentBranch: the branch of a symbolic HEAD
GetCurrentBranch(head) ==
    IF head.kind = "ref" THEN [err |-> "", name |-> head.name]
    ELSE [err |-> "HeadDetached", name |-> ""]

\* GetCurrentCommit: a symbolic HEAD is resolved; the raw texts of the model are no
\* hex digest
GetCurrentCommit(head, rs) ==
    IF head.kind = "ref" THEN GetRef(rs, head.name) ELSE Result("InvalidHash", ZeroHash)

\* SetHEAD: symbolic for a path longer than "refs/heads/", else the raw text
SetHEAD(name) == IF name # "" THEN SymbolicHead(name) ELSE RawHead("refs/heads")

(***************************************************************************)
(* internal/repository: snapshots.                                         *)
(***************************************************************************)
\* listAllFiles: the files of the working tree
listAllFiles(wd) == {p \in DOMAIN wd : wd[p] # Absent}

\* an ordering of Paths restricted to the members of S
Restrict(order, S) == SelectSeq(order, LAMBDA p : p \in S)

fileMode(f) == IF f.exec THEN ModeExecutable ELSE ModeRegular

\* buildTree: one entry per file, in the order the workers deliver them; every
\* file's blob is stored
buildTree(wd, order) ==
    Tree([i \in DOMAIN order |->
            TreeEntry(fileMode(wd[order[i]]), order[i], HashOf(Blob(wd[order[i]].data)))])

treeBlobs(tree) == {tree.Entries[i].Hash : i \in DOMAIN tree.Entries}

\* Save(nil, message), with the workers finishing in `order`
saveOp(message, order) ==
    IF message = ""
    THEN [objects |-> objects, refs |-> refs, res |-> "EmptyMessage"]
    ELSE LET tree == buildTree(workdir, Restrict(order, listAllFiles(workdir)))
             current == GetCurrentCommit(HEAD, refs)
             parents == IF current.err = "" /\ ~IsZero(current.hash)
                        THEN <<current.hash>> ELSE <<>>
             commit == Commit(HashOf(tree), parents, now, message)
             objs == Put(Put(objects \cup treeBlobs(tree), tree), commit)
             branch == GetCurrentBranch(HEAD)
         IN  IF branch.err # ""
             THEN [objects |-> objs, refs |-> refs, res |-> branch.err]
             ELSE [objects |-> objs, refs |-> SetRef(refs, branch.name, HashOf(commit)),
                   res |-> "ok"]

\* an Undo that goes back to the last parent of the tip
undoOpLastParent ==
    LET current == GetCurrentCommit(HEAD, refs) IN
    IF current.err # "" THEN [refs |-> refs, res |-> current.err]
    ELSE IF ~HasCommit(objects, current.hash) THEN [refs |-> refs, res |-> "ObjectNotFound"]
    ELSE [refs |-> SetRef(refs, GetCurrentBranch(HEAD).name,
                          IF Len(current.hash.Parents) > 0
                          THEN current.hash.Parents[Len(current.hash.Parents)]
                          ELSE ZeroHash),
          res |-> "ok"]

\* Undo
undoOp ==
    LET current == GetCurrentCommit(HEAD, refs) IN
    IF current.err # "" THEN [refs |-> refs, res |-> current.err]
    ELSE IF ~HasCommit(objects, current.hash) THEN [refs |-> refs, res |-> "ObjectNotFound"]
    ELSE LET branch == GetCurrentBranch(HEAD)
             parentHash == IF Len(current.hash.Parents) > 0 THEN current.hash.Parents[1]
                           ELSE ZeroHash
         IN  IF branch.err # "" THEN [refs |-> refs, res |-> branch.err]
             ELSE [refs |-> SetRef(refs, branch.name, parentHash), res |-> "ok"]

\* an Amend that makes the new commit an orphan
amendOpOrphan(message, order) ==
    LET current == GetCurrentCommit(HEAD, refs) IN
    IF current.err # "" \/ ~HasCommit(objects, current.hash)
    THEN [objects |-> objects, refs |-> refs, res |-> "ObjectNotFound"]
    ELSE LET tree == buildTree(workdir, Restrict(order, listAllFiles(workdir)))
             commit == Commit(HashOf(tree), <<>>, now,
                              IF message = "" THEN current.hash.Message ELSE message)
         IN  [objects |-> Put(Put(objects \cup treeBlobs(tree), tree), commit),
              refs |-> SetRef(refs, GetCurrentBranch(HEAD).name, HashOf(commit)),
              res |-> "ok"]

\* Amend(nil, message), with the workers finishing in `order`
amendOp(message, order) ==
    LET current == GetCurrentCommit(HEAD, refs) IN
    IF current.err # "" THEN [objects |-> objects, refs |-> refs, res |-> current.err]
    ELSE IF ~HasCommit(objects, current.hash)
         THEN [objects |-> objects, refs |-> refs, res |-> "ObjectNotFound"]
    ELSE LET oldCommit == current.hash
             msg == IF message = "" THEN oldCommit.Message ELSE message
             tree == buildTree(workdir, Restrict(order, listAllFiles(workdir)))
             commit == Commit(HashOf(tree), oldCommit.Parents, now, msg)
             objs == Put(Put(objects \cup treeBlobs(tree), tree), commit)
             branch == GetCurrentBranch(HEAD)
         IN  IF branch.err # ""
             THEN [objects |-> objs, refs |-> refs, res |-> branch.err]
             ELSE [objects |-> objs, refs |-> SetRef(refs, branch.name, HashOf(commit)),
                   res |-> "ok"]

\* Checkout: the blobs of the commit's tree written over the working tree, entry by
\* entry; a file that exists keeps its permission bits, a file that is created gets
\* the entry's
RECURSIVE checkoutEntries(_, _, _, _)
checkoutEntries(objs, wd, entries, i) ==
    IF i > Len(entries) THEN [err |-> "", workdir |-> wd]
    ELSE LET entry == entries[i] IN
         IF entry.Hash \notin objs THEN [err |-> "ObjectNotFound", workdir |-> wd]
         ELSE IF entry.Hash.type # "blob" THEN checkoutEntries(objs, wd, entries, i + 1)
         ELSE LET exec == IF wd[entry.Name] # Absent THEN wd[entry.Name].exec
                          ELSE entry.Mode = ModeExecutable
              IN  checkoutEntries(objs, [wd EXCEPT ![entry.Name] = File(entry.Hash.data, exec)],
                                  entries, i + 1)

Checkout(objs, wd, commitHash) ==
    IF ~HasCommit(objs, commitHash) THEN [err |-> "ObjectNotFound", workdir |-> wd]
    ELSE IF ~HasTree(objs, commitHash.Tree) THEN [err |-> "ObjectNotFound", workdir |-> wd]
    ELSE checkoutEntries(objs, wd, commitHash.Tree.Entries, 1)

(***************************************************************************)
(* internal/repository: branches.                                          *)
(***************************************************************************)
\* a CreateBranch that does not look whether the branch exists
createBranchOpOverwrite(name) ==
    IF name = "" \/ name = "HEAD" THEN [refs |-> refs, res |-> "InvalidBranchName"]
    ELSE LET current == GetCurrentCommit(HEAD, refs) IN
         IF current.err # "" THEN [refs |-> SetRef(refs, name, ZeroHash), res |-> "ok"]
         ELSE [refs |-> SetRef(refs, name, current.hash), res |-> "ok"]

\* CreateBranch
createBranchOp(name) ==
    IF name = "" \/ name = "HEAD" THEN [refs |-> refs, res |-> "InvalidBranchName"]
    ELSE IF refs[name] # NoRef THEN [refs |-> refs, res |-> "BranchExists"]
    ELSE LET current == GetCurrentCommit(HEAD, refs) IN
         IF current.err = "BranchNotFound"
         THEN [refs |-> SetRef(refs, name, ZeroHash), res |-> "ok"]
         ELSE IF current.err # "" THEN [refs |-> refs, res |-> current.err]
         ELSE [refs |-> SetRef(refs, name, current.hash), res |-> "ok"]

\* SwitchBranch: the stat of refs/heads/<name> finds a ref file or, for the empty
\* name, the refs/heads directory itself
switchBranchOp(name) ==
    IF name # "" /\ (name \notin BranchNames \/ refs[name] = NoRef)
    THEN [HEAD |-> HEAD, res |-> "BranchNotFound"]
    ELSE [HEAD |-> SetHEAD(name), res |-> "ok"]

(***************************************************************************)
(* internal/merge: the merge state.                                        *)
(***************************************************************************)
\* a merge state that records the two sides exchanged
MergeStateRecordSwapped(branch, base, ours, theirs, strategy, conflicts, autoMerged) ==
    [type |-> "state", Branch |-> branch, BaseCommit |-> base, OurCommit |-> theirs,
     TheirCommit |-> ours, Strategy |-> strategy, Conflicts |-> conflicts,
     Resolved |-> <<>>, AutoMerged |-> autoMerged]

MergeStateRecord(branch, base, ours, theirs, strategy, conflicts, autoMerged) ==
    [type |-> "state", Branch |-> branch, BaseCommit |-> base, OurCommit |-> ours,
     TheirCommit |-> theirs, Strategy |-> strategy, Conflicts |-> conflicts,
     Resolved |-> <<>>, AutoMerged |-> autoMerged]

\* an IsMergeInProgress that never finds MERGE_STATE
IsMergeInProgressNever(ms) == FALSE

\* IsMergeInProgress: MERGE_STATE exists
IsMergeInProgress(ms) == ms # NoMergeState

\* a ValidateResolved that accepts unresolved conflicts
ValidateResolvedNone(state) == ""

\* ValidateResolved: no conflict with Resolved = false
ValidateResolved(state) ==
    IF \E i \in DOMAIN state.Conflicts : ~state.Conflicts[i].Resolved
    THEN "ConflictsExist" ELSE ""

\* MarkResolved: every conflict at `path` flagged, the path listed once in Resolved
MarkResolved(state, path) ==
    IF ~\E i \in DOMAIN state.Conflicts : state.Conflicts[i].Path = path
    THEN [err |-> "NoConflictAtPath", state |-> state]
    ELSE LET marked == [i \in DOMAIN state.Conflicts |->
                           IF state.Conflicts[i].Path = path
                           THEN [state.Conflicts[i] EXCEPT !.Resolved = TRUE]
                           ELSE state.Conflicts[i]]
             listed == IF \E j \in DOMAIN state.Resolved : state.Resolved[j] = path
                       THEN state.Resolved ELSE Append(state.Resolved, path)
         IN  [err |-> "", state |-> [state EXCEPT !.Conflicts = marked, !.Resolved = listed]]

(***************************************************************************)
(* internal/repository: merge.                                             *)
(***************************************************************************)
MergeOptions(noFF, ffOnly, strategy) == [NoFF |-> noFF, FFOnly |-> ffOnly, Strategy |-> strategy]
DefaultOptions == MergeOptions(FALSE, FALSE, "")
\* the options a caller passes
OptionInputs == {DefaultOptions, MergeOptions(FALSE, TRUE, "")}

\* a merge message without the branch name
MergeMessageNoBranch(branch) == "Merge branch"

MergeMessage(branch) == "Merge branch '" \o branch \o "'"

Post(objs, rs, ms, wd, res) ==
    [objects |-> objs, refs |-> rs, mergeState |-> ms, workdir |-> wd, res |-> res]

\* getCommitTree succeeds: the commit and its tree can be read
hasCommitTree(objs, commitHash) == HasCommit(objs, commitHash) /\ HasTree(objs, commitHash.Tree)

\* doFastForward
doFastForward(target) ==
    LET currentBranch == GetCurrentBranch(HEAD) IN
    IF currentBranch.err # "" THEN Post(objects, refs, mergeState, workdir, currentBranch.err)
    ELSE LET rs == SetRef(refs, currentBranch.name, target)
             co == Checkout(objects, workdir, target)
         IN  IF co.err # "" THEN Post(objects, rs, mergeState, co.workdir, co.err)
             ELSE Post(objects, rs, mergeState, co.workdir, "ff")

\* a createMergeCommit that records only the current branch's tip as parent
createMergeCommitOneParent(objs, theirBranch, ourCommit, theirCommit, files, treeOrder) ==
    LET names == Restrict(treeOrder, DOMAIN files)
        tree == Tree([i \in DOMAIN names |-> TreeEntry(ModeRegular, names[i], files[names[i]])])
        commit == Commit(HashOf(tree), <<ourCommit>>, now, "Merge branch '" \o theirBranch \o "'")
        objs2 == Put(Put(objs, tree), commit)
        currentBranch == GetCurrentBranch(HEAD)
    IN  IF currentBranch.err # ""
        THEN [err |-> currentBranch.err, objects |-> objs2, refs |-> refs, hash |-> ZeroHash]
        ELSE [err |-> "", objects |-> objs2,
              refs |-> SetRef(refs, currentBranch.name, HashOf(commit)), hash |-> HashOf(commit)]

\* createMergeCommit: the merged files as a tree of regular files, in the order the
\* map yields them, under a commit with parents [ours, theirs]; the branch moves to it
createMergeCommit(objs, theirBranch, ourCommit, theirCommit, files, treeOrder) ==
    LET names == Restrict(treeOrder, DOMAIN files)
        tree == Tree([i \in DOMAIN names |-> TreeEntry(ModeRegular, names[i], files[names[i]])])
        commit == Commit(HashOf(tree), <<ourCommit, theirCommit>>, now, MergeMessage(theirBranch))
        objs2 == Put(Put(objs, tree), commit)
        currentBranch == GetCurrentBranch(HEAD)
    IN  IF currentBranch.err # ""
        THEN [err |-> currentBranch.err, objects |-> objs2, refs |-> refs, hash |-> ZeroHash]
        ELSE [err |-> "", objects |-> objs2,
              refs |-> SetRef(refs, currentBranch.name, HashOf(commit)), hash |-> HashOf(commit)]

\* writeConflictMarkers: writes nothing
writeConflictMarkers(wd, conflicts) == wd

\* doThreeWayMerge
doThreeWayMerge(base, ours, theirs, theirBranch, opts, fileOrder, treeOrder) ==
    IF ~hasCommitTree(objects, base) \/ ~hasCommitTree(objects, ours)
       \/ ~hasCommitTree(objects, theirs)
    THEN Post(objects, refs, mergeState, workdir, "ObjectNotFound")
    ELSE LET baseFiles == buildFileMap(base.Tree)
             ourFiles == buildFileMap(ours.Tree)
             theirFiles == buildFileMap(theirs.Tree)
             CheckedOut(c, co) ==
                 IF co.err # "" THEN Post(c.objects, c.refs, mergeState, co.workdir, co.err)
                 ELSE Post(c.objects, c.refs, mergeState, co.workdir, "merged")
             Committed(c) ==
                 IF c.err # "" THEN Post(c.objects, c.refs, mergeState, workdir, c.err)
                 ELSE CheckedOut(c, Checkout(c.objects, workdir, c.hash))
             Finished(m, objs) ==
                 IF m.panic THEN Post(objs, refs, mergeState, workdir, "panic")
                 ELSE IF Len(m.conflicts) > 0
                 THEN LET currentBranch == GetCurrentBranch(HEAD)
                          state == MergeStateRecord(theirBranch, base, ours, theirs,
                                                    opts.Strategy, m.conflicts, m.autoMerged)
                      IN  IF currentBranch.err # ""
                          THEN Post(objs, refs, mergeState, workdir, currentBranch.err)
                          ELSE Post(objs, refs, state,
                                    writeConflictMarkers(workdir, m.conflicts), "conflicts")
                 ELSE Committed(createMergeCommit(objs, theirBranch, ours, theirs,
                                                  m.mergedFiles, treeOrder))
             Merged(m) == Finished(m, objects \cup m.stored)
         IN  Merged(mergeTrees(baseFiles, ourFiles, theirFiles,
                               Restrict(fileOrder, allFiles(baseFiles, ourFiles, theirFiles))))

\* Merge
mergeOp(branch, opts, fileOrder, treeOrder) ==
    IF IsMergeInProgress(mergeState)
    THEN Post(objects, refs, mergeState, workdir, "MergeInProgress")
    ELSE LET their == IF branch \in BranchNames THEN GetRef(refs, branch)
                      ELSE Result("BranchNotFound", ZeroHash)
             our == GetCurrentCommit(HEAD, refs)
         IN  IF their.err # "" THEN Post(objects, refs, mergeState, workdir, their.err)
             ELSE IF our.err # "" THEN Post(objects, refs, mergeState, workdir, our.err)
             ELSE LET lca == FindLCA(objects, our.hash, their.hash)
                      canFF == CanFastForward(objects, our.hash, their.hash)
                  IN  IF lca.err # "" THEN Post(objects, refs, mergeState, workdir, lca.err)
                      ELSE IF opts.FFOnly /\ ~canFF
                      THEN Post(objects, refs, mergeState, workdir, "CannotFastForward")
                      ELSE IF canFF /\ ~opts.NoFF THEN doFastForward(their.hash)
                      ELSE doThreeWayMerge(lca.hash, our.hash, their.hash, branch, opts,
                                           fileOrder, treeOrder)

\* AbortMerge
abortMergeOp ==
    IF mergeState = NoMergeState
    THEN Post(objects, refs, mergeState, workdir, "NoMergeInProgress")
    ELSE LET co == Checkout(objects, workdir, mergeState.OurCommit) IN
         IF co.err # "" THEN Post(objects, refs, mergeState, co.workdir, co.err)
         ELSE Post(objects, refs, NoMergeState, co.workdir, "ok")

\* ContinueMerge, with the workers of buildTree finishing in `order`
continueMergeOp(order) ==
    IF mergeState = NoMergeState
    THEN Post(objects, refs, mergeState, workdir, "NoMergeInProgress")
    ELSE IF ValidateResolved(mergeState) # ""
    THEN Post(objects, refs, mergeState, workdir, ValidateResolved(mergeState))
    ELSE LET tree == buildTree(workdir, Restrict(order, listAllFiles(workdir)))
             commit == Commit(HashOf(tree), <<mergeState.OurCommit, mergeState.TheirCommit>>,
                              now, MergeMessage(mergeState.Branch))
             objs == Put(Put(objects \cup treeBlobs(tree), tree), commit)
             currentBranch == GetCurrentBranch(HEAD)
         IN  IF currentBranch.err # ""
             THEN Post(objs, refs, mergeState, workdir, currentBranch.err)
             ELSE Post(objs, SetRef(refs, currentBranch.name, HashOf(commit)), NoMergeState,
                       workdir, "ok")

\* the resolve command: the stored state with MarkResolved(path) applied, saved back
resolveOp(path) ==
    IF mergeState = NoMergeState THEN [mergeState |-> mergeState, res |-> "NoMergeInProgress"]
    ELSE LET r == MarkResolved(mergeState, path) IN
         IF r.err # "" THEN [mergeState |-> mergeState, res |-> r.err]
         ELSE [mergeState |-> r.state, res |-> "ok"]

(***************************************************************************)
(* The repository: its operations as actions.                              *)
(***************************************************************************)
\* what the current branch's ref holds
CurrentTip == IF HEAD.kind = "ref" THEN refs[HEAD.name] ELSE NoRef

WithinBounds(objs) == Cardinality(Commits(objs)) <= MaxCommits

LabIdle == [base |-> <<>>, ours |-> <<>>, theirs |-> <<>>]
NotRun == [run |-> FALSE]

\* no caller is at work on the object files or on a ref file
DiskIdle ==
    /\ disk = <<>>
    /\ cache = {}
    /\ returned = {}
    /\ refFile = NoRef
    /\ callers = <<>>

\* no ancestry query and no Fetch is under way
PeerIdle ==
    /\ query = <<>>
    /\ answer = NotRun
    /\ remote = {}
    /\ fetch = NotRun

Init ==
    /\ objects = {}
    /\ refs = [b \in BranchNames |-> NoRef]
    /\ HEAD = SymbolicHead("main")
    /\ mergeState = NoMergeState
    /\ workdir = [p \in WorkPaths |-> Absent]
    /\ last = NoOp
    /\ mIn = LabIdle
    /\ mFwd = NotRun
    /\ mRev = NotRun
    /\ DiskIdle
    /\ PeerIdle

\* the user writes a file
WriteFile ==
    \E p \in WorkPaths, f \in FileInputs :
        /\ workdir' = [workdir EXCEPT ![p] = f]
        /\ last' = NoOp
        /\ UNCHANGED <<objects, refs, HEAD, mergeState, labVars, otherVars>>

\* the user removes a file
RemoveFile ==
    \E p \in WorkPaths :
        /\ workdir[p] # Absent
        /\ workdir' = [workdir EXCEPT ![p] = Absent]
        /\ last' = NoOp
        /\ UNCHANGED <<objects, refs, HEAD, mergeState, labVars, otherVars>>

Save ==
    \E message \in Messages, order \in Orders(WorkPaths) :
        \E r \in {saveOp(message, order)} :
            /\ WithinBounds(r.objects)
            /\ objects' = r.objects
            /\ refs' = r.refs
            /\ last' = Op("Save", <<>>, r.res)
            /\ UNCHANGED <<HEAD, mergeState, workdir, labVars, otherVars>>

CreateBranch ==
    \E name \in NameInputs :
        \E r \in {createBranchOp(name)} :
            /\ refs' = r.refs
            /\ last' = NoOp
            /\ UNCHANGED <<objects, HEAD, mergeState, workdir, labVars, otherVars>>

SwitchBranch ==
    \E name \in NameInputs :
        \E r \in {switchBranchOp(name)} :
            /\ HEAD' = r.HEAD
            /\ last' = NoOp
            /\ UNCHANGED <<objects, refs, mergeState, workdir, labVars, otherVars>>

Merge ==
    \E branch \in NameInputs, opts \in OptionInputs,
       fileOrder \in Orders(WorkPaths), treeOrder \in Orders(WorkPaths) :
        \E r \in {mergeOp(branch, opts, fileOrder, treeOrder)} :
            /\ WithinBounds(r.objects)
            /\ objects' = r.objects
            /\ refs' = r.refs
            /\ mergeState' = r.mergeState
            /\ workdir' = r.workdir
            /\ last' = Op("Merge", <<branch, opts, CurrentTip>>, r.res)
            /\ UNCHANGED <<HEAD, labVars, otherVars>>

AbortMerge ==
    \E r \in {abortMergeOp} :
        /\ mergeState' = r.mergeState
        /\ workdir' = r.workdir
        /\ last' = Op("AbortMerge", <<>>, r.res)
        /\ UNCHANGED <<objects, refs, HEAD, labVars, otherVars>>

ContinueMerge ==
    \E order \in Orders(WorkPaths) :
        \E r \in {continueMergeOp(order)} :
            /\ WithinBounds(r.objects)
            /\ objects' = r.objects
            /\ refs' = r.refs
            /\ mergeState' = r.mergeState
            /\ last' = Op("ContinueMerge", <<>>, r.res)
            /\ UNCHANGED <<HEAD, workdir, labVars, otherVars>>

\* the user runs the resolve command
Resolve ==
    \E path \in WorkPaths :
        \E r \in {resolveOp(path)} :
            /\ mergeState' = r.mergeState
            /\ last' = NoOp
            /\ UNCHANGED <<objects, refs, HEAD, workdir, labVars, otherVars>>

Next ==
    \/ WriteFile
    \/ RemoveFile
    \/ Save
    \/ CreateBranch
    \/ SwitchBranch
    \/ Merge
    \/ AbortMerge
    \/ ContinueMerge
    \/ Resolve

Spec == Init /\ [][Next]_vars

(***************************************************************************)
(* The merge life cycle (Spec).                                            *)
(***************************************************************************)
\* the tree-level merge a three-way Merge of `branch` runs in the current state
TreeLevel(branch) ==
    LET ours == CurrentTip
        theirs == refs[branch]
        base == FindLCA(objects, ours, theirs).hash
        baseFiles == buildFileMap(base.Tree)
        ourFiles == buildFileMap(ours.Tree)
        theirFiles == buildFileMap(theirs.Tree)
    IN  mergeTrees(baseFiles, ourFiles, theirFiles,
                   CHOOSE o \in Orders(allFiles(baseFiles, ourFiles, theirFiles)) : TRUE)

\* the step is a Merge that returned a three-way result: merged or conflicted
ThreeWayStep == last'.op = "Merge" /\ last'.res \in {"merged", "conflicts"}

\* C1: while a merge state exists, Save fails, creating no commit and moving no
\* branch ref; and a merge state is ended only by ContinueMerge or AbortMerge.
C1_SaveBlockedDuringMerge ==
    [][/\ (mergeState # NoMergeState /\ last'.op = "Save")
            => /\ last'.res # "ok"
               /\ Commits(objects') = Commits(objects)
               /\ refs' = refs
       /\ (mergeState # NoMergeState /\ mergeState' = NoMergeState)
            => last'.op \in {"ContinueMerge", "AbortMerge"}]_vars

\* C2: when the current branch's tip is a commit and an ancestor of the merged
\* branch's tip, Merge with default options sets the current branch's ref to exactly
\* that tip, stores no commit, returns a fast-forward without conflicts, and leaves
\* no merge state.
C2_FastForward ==
    [][(/\ last'.op = "Merge"
        /\ last'.arg[2] = DefaultOptions
        /\ mergeState = NoMergeState
        /\ HasCommit(objects, CurrentTip)
        /\ refs[last'.arg[1]] # NoRef
        /\ IsAncestor(objects, CurrentTip, refs[last'.arg[1]]))
          => /\ last'.res = "ff"
             /\ refs' = [refs EXCEPT ![HEAD.name] = refs[last'.arg[1]]]
             /\ Commits(objects') = Commits(objects)
             /\ mergeState' = NoMergeState]_vars

\* a fast-forward that moved the current branch to another commit has just run
C2_Witness ==
    /\ last.op = "Merge" /\ last.res = "ff" /\ last.arg[2] = DefaultOptions
    /\ HasCommit(objects, last.arg[3])
    /\ last.arg[3] # CurrentTip
    /\ CurrentTip = refs[last.arg[1]]

\* C3: when the tree-level merge of a three-way Merge finds a conflict, Merge returns
\* conflicts, the merge state afterwards holds the base, our and their commits and
\* the conflicts found, and no ref, not HEAD and no commit has changed.
C3_ConflictedMerge ==
    [][(ThreeWayStep /\ Len(TreeLevel(last'.arg[1]).conflicts) > 0)
          => /\ last'.res = "conflicts"
             /\ mergeState' # NoMergeState
             /\ mergeState'.BaseCommit = FindLCA(objects, CurrentTip, refs[last'.arg[1]]).hash
             /\ mergeState'.OurCommit = CurrentTip
             /\ mergeState'.TheirCommit = refs[last'.arg[1]]
             /\ mergeState'.Conflicts = TreeLevel(last'.arg[1]).conflicts
             /\ refs' = refs
             /\ HEAD' = HEAD
             /\ Commits(objects') = Commits(objects)]_vars

\* a Merge has just returned conflicts and left its merge state
C3_Witness ==
    /\ last.op = "Merge" /\ last.res = "conflicts"
    /\ mergeState # NoMergeState
    /\ Len(mergeState.Conflicts) > 0
    /\ mergeState.OurCommit = CurrentTip

\* C4: when every conflict of the stored merge state is resolved, ContinueMerge
\* stores a commit with parents [our_commit, their_commit] and the message
\* Merge branch '<branch>', sets the current branch's ref to it, and removes the
\* merge state.
C4_ContinueCompletes ==
    [][(/\ last'.op = "ContinueMerge"
        /\ mergeState # NoMergeState
        /\ \A i \in DOMAIN mergeState.Conflicts : mergeState.Conflicts[i].Resolved)
          => /\ last'.res = "ok"
             /\ HasCommit(objects', refs'[HEAD.name])
             /\ refs'[HEAD.name].Parents = <<mergeState.OurCommit, mergeState.TheirCommit>>
             /\ refs'[HEAD.name].Message = "Merge branch '" \o mergeState.Branch \o "'"
             /\ refs' = [refs EXCEPT ![HEAD.name] = refs'[HEAD.name]]
             /\ mergeState' = NoMergeState]_vars

\* ContinueMerge has just completed a merge whose conflicts were resolved
C4_Witness ==
    /\ last.op = "ContinueMerge" /\ last.res = "ok"
    /\ mergeState = NoMergeState
    /\ HasCommit(objects, CurrentTip)
    /\ Len(CurrentTip.Parents) = 2

\* C5: while a conflict of the stored merge state is unresolved, ContinueMerge fails
\* with ConflictsExist, storing nothing, moving no ref and keeping the merge state;
\* without a merge state it fails with NoMergeInProgress.
C5_ContinueRefused ==
    [][/\ (/\ last'.op = "ContinueMerge"
           /\ mergeState # NoMergeState
           /\ \E i \in DOMAIN mergeState.Conflicts : ~mergeState.Conflicts[i].Resolved)
             => /\ last'.res = "ConflictsExist"
                /\ objects' = objects
                /\ refs' = refs
                /\ mergeState' = mergeState
       /\ (last'.op = "ContinueMerge" /\ mergeState = NoMergeState)
             => /\ last'.res = "NoMergeInProgress"
                /\ objects' = objects
                /\ refs' = refs]_vars

\* ContinueMerge has just been refused over an unresolved conflict
C5_Witness ==
    /\ last.op = "ContinueMerge" /\ last.res = "ConflictsExist"
    /\ mergeState # NoMergeState
    /\ \E i \in DOMAIN mergeState.Conflicts : ~mergeState.Conflicts[i].Resolved

\* C6: after a successful AbortMerge no merge state exists and the current branch's
\* ref holds the our_commit the merge state recorded, whatever ran since the Merge.
C6_AbortRestoresTip ==
    [][(last'.op = "AbortMerge" /\ last'.res = "ok")
          => /\ mergeState' = NoMergeState
             /\ refs'[HEAD'.name] = mergeState.OurCommit]_vars

\* C7: Merge called while a merge state exists fails with MergeInProgress and changes
\* no ref, not HEAD and not the merge state; and a merge state begins only with a
\* conflicted Merge, which always leaves one, and ends only with a successful
\* ContinueMerge or AbortMerge, which always removes it.
C7_MergeInProgress ==
    [][/\ (last'.op = "Merge" /\ mergeState # NoMergeState)
             => /\ last'.res = "MergeInProgress"
                /\ refs' = refs
                /\ HEAD' = HEAD
                /\ mergeState' = mergeState
                /\ objects' = objects
       /\ (mergeState = NoMergeState /\ mergeState' # NoMergeState)
             <=> (last'.op = "Merge" /\ last'.res = "conflicts")
       /\ (mergeState # NoMergeState /\ mergeState' = NoMergeState)
             <=> (last'.op \in {"ContinueMerge", "AbortMerge"} /\ last'.res = "ok")]_vars

\* a Merge has just been refused because a merge is in progress
C7_Witness ==
    /\ last.op = "Merge" /\ last.res = "MergeInProgress"
    /\ mergeState # NoMergeState

LabTexts(p) == IF p = "f1" THEN TextsUpTo(MaxLines) \cup {BinaryText}
               ELSE {Text(<<"a">>, FALSE)}

FileMapsOver(S) == {f \in [S -> {Blob(t) : t \in UNION {LabTexts(p) : p \in Paths}}] :
                       \A p \in S : f[p] \in {Blob(t) : t \in LabTexts(p)}}

FileMaps == UNION {FileMapsOver(S) : S \in SUBSET Paths}

Ran(result) == [run |-> TRUE, result |-> result]

LabInit ==
    /\ objects = {}
    /\ refs = [b \in BranchNames |-> NoRef]
    /\ HEAD = SymbolicHead("main")
    /\ mergeState = NoMergeState
    /\ workdir = [p \in WorkPaths |-> Absent]
    /\ last = NoOp
    /\ mIn \in [base : FileMaps, ours : FileMaps, theirs : FileMaps]
    /\ mFwd = NotRun
    /\ mRev = NotRun
    /\ DiskIdle
    /\ PeerIdle

\* the merge loop on (base, ours, theirs), the map yielding the files in some order
MergeForward ==
    \E order \in Orders(Paths) :
        /\ ~mFwd.run
        /\ mFwd' = Ran(mergeTrees(mIn.base, mIn.ours, mIn.theirs,
                                  Restrict(order, allFiles(mIn.base, mIn.ours, mIn.theirs))))
        /\ UNCHANGED <<repoVars, last, mIn, mRev, otherVars>>

\* the merge loop on (base, theirs, ours)
MergeSwapped ==
    \E order \in Orders(Paths) :
        /\ ~mRev.run
        /\ mRev' = Ran(mergeTrees(mIn.base, mIn.theirs, mIn.ours,
                                  Restrict(order, allFiles(mIn.base, mIn.ours, mIn.theirs))))
        /\ UNCHANGED <<repoVars, last, mIn, mFwd, otherVars>>

LabNext ==
    \/ MergeForward
    \/ MergeSwapped

MergeSpec == LabInit /\ [][LabNext]_vars

\* the blob a file map holds at a path, or Absent
At(files, p) == IF p \in DOMAIN files THEN files[p] ELSE Absent

Take(blob) == [outcome |-> "take", blob |-> blob]
Drop == [outcome |-> "drop"]
Conflict(type) == [outcome |-> "conflict", type |-> type]
ContentMerge == [outcome |-> "content merge"]

\* the decision table of the tree-level merge, its rows in the order given: what the
\* path's blob is in base, ours and theirs (b, o, t), and the outcome
DecisionTable(b, o, t) ==
    << [when |-> b = Absent /\ o # Absent /\ t = Absent, outcome |-> Take(o)],
       [when |-> b = Absent /\ o = Absent /\ t # Absent, outcome |-> Take(t)],
       [when |-> b = Absent /\ o # Absent /\ t # Absent /\ o = t, outcome |-> Take(o)],
       [when |-> b = Absent /\ o # Absent /\ t # Absent /\ o # t,
        outcome |-> Conflict("add-add")],
       [when |-> b # Absent /\ o = Absent /\ t = Absent, outcome |-> Drop],
       [when |-> b # Absent /\ o # Absent /\ t = Absent /\ o = b, outcome |-> Drop],
       [when |-> b # Absent /\ o # Absent /\ t = Absent /\ o # b,
        outcome |-> Conflict("modify-delete")],
       [when |-> b # Absent /\ o = Absent /\ t # Absent /\ t = b, outcome |-> Drop],
       [when |-> b # Absent /\ o = Absent /\ t # Absent /\ t # b,
        outcome |-> Conflict("delete-modify")],
       [when |-> b # Absent /\ o # Absent /\ t # Absent /\ o = t, outcome |-> Take(o)],
       [when |-> b # Absent /\ o # Absent /\ t # Absent /\ o = b /\ t # b,
        outcome |-> Take(t)],
       [when |-> b # Absent /\ o # Absent /\ t # Absent /\ o # b /\ t = b,
        outcome |-> Take(o)],
       [when |-> b # Absent /\ o # Absent /\ t # Absent /\ o # b /\ t # b,
        outcome |-> ContentMerge] >>

RowsThatApply(b, o, t) ==
    LET table == DecisionTable(b, o, t)
    IN  {i \in DOMAIN table : table[i].when}

TableOutcome(b, o, t) ==
    LET table == DecisionTable(b, o, t)
        first == CHOOSE i \in RowsThatApply(b, o, t) : \A j \in RowsThatApply(b, o, t) : i <= j
    IN  table[first].outcome

\* what the merge loop did with a file, in the table's terms: a content merge is one
\* whatever it ended in
Observed(o) ==
    IF o.kind \in {"ours", "theirs"} THEN Take(o.hash)
    ELSE IF o.kind = "drop" THEN Drop
    ELSE IF o.kind = "conflict" /\ o.ctype # "content" THEN Conflict(o.ctype)
    ELSE ContentMerge

\* C9: for every path of the union of the three trees, a row of the decision table
\* applies and the merge loop's outcome is the outcome of the first row that does.
C9_DecisionTable ==
    mFwd.run =>
        /\ ~mFwd.result.panic =>
              DOMAIN mFwd.result.outcomes = allFiles(mIn.base, mIn.ours, mIn.theirs)
        /\ \A p \in DOMAIN mFwd.result.outcomes :
              /\ p \in allFiles(mIn.base, mIn.ours, mIn.theirs)
              /\ RowsThatApply(At(mIn.base, p), At(mIn.ours, p), At(mIn.theirs, p)) # {}
              /\ Observed(mFwd.result.outcomes[p])
                   = TableOutcome(At(mIn.base, p), At(mIn.ours, p), At(mIn.theirs, p))

\* a merge has run over two paths, f1 settled by a content merge and f2 dropped
\* because ours deleted it
C9_Witness ==
    /\ mFwd.run
    /\ DOMAIN mFwd.result.outcomes = Paths
    /\ mFwd.result.outcomes["f1"].kind = "merged"
    /\ mFwd.result.outcomes["f2"].kind = "drop"
    /\ At(mIn.base, "f2") # Absent /\ At(mIn.ours, "f2") = Absent

\* C10: when the tree-level merge of (base, o, t) ends without conflict, the merge of
\* (base, t, o) ends without conflict too, with the same path -> blob map.
C10_SidesExchanged ==
    (/\ mFwd.run /\ mRev.run
     /\ ~mFwd.result.panic
     /\ Len(mFwd.result.conflicts) = 0)
        => /\ ~mRev.result.panic
           /\ Len(mRev.result.conflicts) = 0
           /\ mRev.result.mergedFiles = mFwd.result.mergedFiles

\* both merges have run, the first without conflict: f1 went through a content
\* merge and f2 is held by one side only
C10_Witness ==
    /\ mFwd.run /\ mRev.run
    /\ ~mFwd.result.panic
    /\ Len(mFwd.result.conflicts) = 0
    /\ "f1" \in DOMAIN mFwd.result.outcomes
    /\ mFwd.result.outcomes["f1"].kind = "merged"
    /\ At(mIn.ours, "f2") # At(mIn.theirs, "f2")

(***************************************************************************)
(* internal/storage: the object files under concurrent callers             *)
(* (StoreSpec).  Each caller runs Put, Get or Exists one system call or    *)
(* one locked section at a time.                                           *)
(***************************************************************************)
NumCallers == 2      \* callers running store or ref operations side by side

\* the framed objects callers put, and their digests
StoreObjects == {Blob(t) : t \in WorkTexts}
StoreDigests == {HashOf(o) : o \in StoreObjects}

\* what the file at objectPath(digest) holds: no file, a file of no bytes, a part
\* of the compressed frame, or all of it
FileNone == "none"
FileEmpty == "empty"
FilePartial == "partial"
FileFull == "full"

\* an os.Stat that never finds the file
fileExistsNever(content) == FALSE

\* os.Stat(path) returns no error
fileExists(content) == content # FileNone

\* a caller between calls, in a call, and back from one
Idle == [pc |-> "idle"]
Outcome(err, hash, found) == [err |-> err, hash |-> hash, found |-> found]
Call(op, pc, d, after) ==
    [pc |-> pc, op |-> op, d |-> d, after |-> after, wrote |-> FALSE, flushed |-> FALSE,
     torn |-> FALSE, res |-> Outcome("", ZeroHash, FALSE)]
Done(c, res) == [c EXCEPT !.pc = "done", !.res = res]
At0(c, pc) == [c EXCEPT !.pc = pc]
Between(c) == c.pc \in {"idle", "done"}

\* the first step of each operation
FirstStep(op) ==
    IF op = "Put" THEN "PutStat" ELSE IF op = "Get" THEN "GetCache" ELSE "ExistsCache"

StoreInit ==
    /\ objects = {}
    /\ refs = [b \in BranchNames |-> NoRef]
    /\ HEAD = SymbolicHead("main")
    /\ mergeState = NoMergeState
    /\ workdir = [p \in WorkPaths |-> Absent]
    /\ last = NoOp
    /\ mIn = LabIdle
    /\ mFwd = NotRun
    /\ mRev = NotRun
    /\ disk = [d \in StoreDigests |-> FileNone]
    /\ cache = {}
    /\ returned = {}
    /\ refFile = NoRef
    /\ callers = [i \in 1..NumCallers |-> Idle]
    /\ PeerIdle

storeFrame == <<repoVars, last, labVars, refFile, peerVars>>

\* a caller calls Put(blob, data), Get(d) or Exists(d); `after` records that a Put
\* had returned d before the call
StoreCall ==
    \E i \in 1..NumCallers, op \in {"Put", "Get", "Exists"}, d \in StoreDigests :
        /\ Between(callers[i])
        /\ callers' = [callers EXCEPT ![i] = Call(op, FirstStep(op), d, d \in returned)]
        /\ UNCHANGED <<disk, cache, returned, storeFrame>>

\* Put: the digest is computed and the path stat'ed; a file that exists ends the call
PutStat ==
    \E i \in 1..NumCallers :
        /\ callers[i].pc = "PutStat"
        /\ IF fileExists(disk[callers[i].d])
           THEN /\ callers' = [callers EXCEPT ![i] = Done(callers[i], Outcome("", callers[i].d, TRUE))]
                /\ returned' = returned \cup {callers[i].d}
           ELSE /\ callers' = [callers EXCEPT ![i] = At0(callers[i], "PutCreate")]
                /\ returned' = returned
        /\ UNCHANGED <<disk, cache, storeFrame>>

\* Put: os.Create makes the file or truncates it; a writer that had already flushed
\* part of the frame to it is torn: what it writes next lands behind a hole
PutCreate ==
    \E i \in 1..NumCallers :
        /\ callers[i].pc = "PutCreate"
        /\ disk' = [disk EXCEPT ![callers[i].d] = FileEmpty]
        /\ callers' = [j \in 1..NumCallers |->
                         IF j = i THEN [callers[i] EXCEPT !.pc = "PutWrite", !.wrote = TRUE]
                         ELSE IF /\ callers[j].pc = "PutClose"
                                 /\ callers[j].d = callers[i].d
                                 /\ callers[j].flushed
                              THEN [callers[j] EXCEPT !.torn = TRUE]
                              ELSE callers[j]]
        /\ UNCHANGED <<cache, returned, storeFrame>>

\* Put: writer.Write compresses the frame; the writer keeps it buffered or flushes a
\* part of it to the file
PutWrite ==
    \E i \in 1..NumCallers, flush \in BOOLEAN :
        /\ callers[i].pc = "PutWrite"
        /\ disk' = IF flush THEN [disk EXCEPT ![callers[i].d] = FilePartial] ELSE disk
        /\ callers' = [callers EXCEPT ![i] = [callers[i] EXCEPT !.pc = "PutClose",
                                                                 !.flushed = flush]]
        /\ UNCHANGED <<cache, returned, storeFrame>>

\* Put: writer.Write fails; the call returns the error and the file stays as it is
PutFail ==
    \E i \in 1..NumCallers :
        /\ callers[i].pc = "PutWrite"
        /\ callers' = [callers EXCEPT ![i] = Done(callers[i], Outcome("WriteFailed", ZeroHash, FALSE))]
        /\ UNCHANGED <<disk, cache, returned, storeFrame>>

\* Put: the deferred writer.Close flushes the rest of the frame, the file is closed
\* and the digest returned
PutClose ==
    \E i \in 1..NumCallers :
        /\ callers[i].pc = "PutClose"
        /\ disk' = [disk EXCEPT ![callers[i].d] =
                        IF callers[i].torn /\ disk[callers[i].d] # FileFull
                        THEN FilePartial ELSE FileFull]
        /\ callers' = [callers EXCEPT ![i] = Done(callers[i], Outcome("", callers[i].d, TRUE))]
        /\ returned' = returned \cup {callers[i].d}
        /\ UNCHANGED <<cache, storeFrame>>

\* Get: the cache is read under the read lock
GetCache ==
    \E i \in 1..NumCallers :
        /\ callers[i].pc = "GetCache"
        /\ callers' = [callers EXCEPT ![i] =
                          IF callers[i].d \in cache
                          THEN Done(callers[i], Outcome("", callers[i].d, TRUE))
                          ELSE At0(callers[i], "GetRead")]
        /\ UNCHANGED <<disk, cache, returned, storeFrame>>

\* Get: the file is opened, decompressed and read to its end
GetRead ==
    \E i \in 1..NumCallers :
        /\ callers[i].pc = "GetRead"
        /\ callers' = [callers EXCEPT ![i] =
                          IF disk[callers[i].d] = FileNone
                          THEN Done(callers[i], Outcome("ObjectNotFound", ZeroHash, FALSE))
                          ELSE IF disk[callers[i].d] = FileFull
                          THEN At0(callers[i], "GetStore")
                          ELSE Done(callers[i], Outcome("DecompressFailed", ZeroHash, FALSE))]
        /\ UNCHANGED <<disk, cache, returned, storeFrame>>

\* Get: the object is cached under the write lock and returned
GetStore ==
    \E i \in 1..NumCallers :
        /\ callers[i].pc = "GetStore"
        /\ cache' = cache \cup {callers[i].d}
        /\ callers' = [callers EXCEPT ![i] =
                          Done(callers[i], Outcome("", callers[i].d, TRUE))]
        /\ UNCHANGED <<disk, returned, storeFrame>>

\* Exists: the cache is read under the read lock
ExistsCache ==
    \E i \in 1..NumCallers :
        /\ callers[i].pc = "ExistsCache"
        /\ callers' = [callers EXCEPT ![i] =
                          IF callers[i].d \in cache
                          THEN Done(callers[i], Outcome("", callers[i].d, TRUE))
                          ELSE At0(callers[i], "ExistsStat")]
        /\ UNCHANGED <<disk, cache, returned, storeFrame>>

\* Exists: the path is stat'ed
ExistsStat ==
    \E i \in 1..NumCallers :
        /\ callers[i].pc = "ExistsStat"
        /\ callers' = [callers EXCEPT ![i] =
                          Done(callers[i], Outcome("", callers[i].d, fileExists(disk[callers[i].d])))]
        /\ UNCHANGED <<disk, cache, returned, storeFrame>>

StoreNext ==
    \/ StoreCall
    \/ PutStat
    \/ PutCreate
    \/ PutWrite
    \/ PutFail
    \/ PutClose
    \/ GetCache
    \/ GetRead
    \/ GetStore
    \/ ExistsCache
    \/ ExistsStat

StoreSpec == StoreInit /\ [][StoreNext]_vars

\* caller i returns from a call of op in this step
Returns(i, op) ==
    /\ callers[i].pc \notin {"idle", "done"}
    /\ callers[i].op = op
    /\ callers'[i].pc = "done"

\* C11: a Put of an object whose digest an earlier Put has returned returns that
\* digest again, without creating or writing the file; the store holds the one file
\* at the digest's path, unchanged by the call.
C11_PutTwice ==
    [][\A i \in 1..NumCallers :
          (Returns(i, "Put") /\ callers[i].after)
              => /\ callers'[i].res = Outcome("", callers[i].d, TRUE)
                 /\ ~callers'[i].wrote
                 /\ fileExists(disk'[callers[i].d])
                 /\ disk' = disk]_vars

\* a second Put of a digest has returned
C11_Witness ==
    \E i \in 1..NumCallers :
        /\ callers[i].pc = "done" /\ callers[i].op = "Put"
        /\ callers[i].after
        /\ callers[i].res.hash = callers[i].d

\* C12: under every interleaving, a Get(d) called after some Put has returned d
\* returns the object, and Exists(d) returns true only when a Get(d) would return
\* the object.
C12_StoreUnderConcurrency ==
    [][\A i \in 1..NumCallers :
          /\ (Returns(i, "Get") /\ callers[i].after)
                => callers'[i].res = Outcome("", callers[i].d, TRUE)
          /\ (Returns(i, "Exists") /\ callers'[i].res.found)
                => (callers[i].d \in cache \/ disk[callers[i].d] = FileFull)]_vars

(***************************************************************************)
(* internal/repository: one ref file under concurrent callers (RefSpec).   *)
(* SetRef is os.WriteFile: the file is opened with O_TRUNC, written and    *)
(* closed; GetRef is os.ReadFile and ParseHash.                            *)
(***************************************************************************)
\* the digests callers set the ref to
RefTips == {Commit(HashOf(Tree(<<>>)), <<>>, now, m) : m \in {"m", "n"}}

\* what the ref file holds of the text "<64 hex digits>\n" of a digest: nothing,
\* some of the digits, all the digits, or the whole line
RefText(hash, upTo) == [type |-> "reftext", hash |-> hash, upTo |-> upTo]
RefEmpty == RefText(ZeroHash, "nothing")
RefLine(hash) == RefText(hash, "line")
ShortWrites(hash) == {RefEmpty, RefText(hash, "some digits"), RefText(hash, "digits")}

\* GetRef on what os.ReadFile returned: a final newline is dropped, and ParseHash
\* wants 64 hex digits
ParseHash(content) ==
    IF content.upTo \in {"digits", "line"} THEN Result("", content.hash)
    ELSE Result("InvalidHash", ZeroHash)

RefCallOf(op, pc, new) ==
    [pc |-> pc, op |-> op, d |-> new, old |-> refFile, after |-> returned # {},
     res |-> Result("", ZeroHash)]

RefInit ==
    /\ objects = {}
    /\ refs = [b \in BranchNames |-> NoRef]
    /\ HEAD = SymbolicHead("main")
    /\ mergeState = NoMergeState
    /\ workdir = [p \in WorkPaths |-> Absent]
    /\ last = NoOp
    /\ mIn = LabIdle
    /\ mFwd = NotRun
    /\ mRev = NotRun
    /\ disk = <<>>
    /\ cache = {}
    /\ returned = {}
    /\ refFile = NoRef
    /\ callers = [i \in 1..NumCallers |-> Idle]
    /\ PeerIdle

refFrame == <<repoVars, last, labVars, disk, cache, peerVars>>

\* a caller calls SetRef(ref, new); `old` is what the file holds at the call
SetRefCall ==
    \E i \in 1..NumCallers, new \in RefTips :
        /\ Between(callers[i])
        /\ callers' = [callers EXCEPT ![i] = RefCallOf("SetRef", "SetRefOpen", new)]
        /\ UNCHANGED <<refFile, returned, refFrame>>

\* a caller calls GetRef(ref); `after` records that a SetRef had returned before
GetRefCall ==
    \E i \in 1..NumCallers :
        /\ Between(callers[i])
        /\ callers' = [callers EXCEPT ![i] = RefCallOf("GetRef", "GetRefRead", ZeroHash)]
        /\ UNCHANGED <<refFile, returned, refFrame>>

\* SetRef: os.WriteFile opens the file, creating or truncating it
SetRefOpen ==
    \E i \in 1..NumCallers :
        /\ callers[i].pc = "SetRefOpen"
        /\ refFile' = RefEmpty
        /\ callers' = [callers EXCEPT ![i] = At0(callers[i], "SetRefWrite")]
        /\ UNCHANGED <<returned, refFrame>>

\* SetRef: the line is written and the file closed
SetRefWrite ==
    \E i \in 1..NumCallers :
        /\ callers[i].pc = "SetRefWrite"
        /\ refFile' = RefLine(callers[i].d)
        /\ callers' = [callers EXCEPT ![i] = Done(callers[i], Result("", callers[i].d))]
        /\ returned' = returned \cup {callers[i].d}
        /\ UNCHANGED refFrame

\* SetRef: the write fails after none or a part of the line; SetRef returns the error
SetRefFail ==
    \E i \in 1..NumCallers :
        /\ callers[i].pc = "SetRefWrite"
        /\ refFile' \in ShortWrites(callers[i].d)
        /\ callers' = [callers EXCEPT ![i] =
                          Done(callers[i], Result("WriteFailed", ZeroHash))]
        /\ UNCHANGED <<returned, refFrame>>

\* GetRef: os.ReadFile, then ParseHash
GetRefRead ==
    \E i \in 1..NumCallers :
        /\ callers[i].pc = "GetRefRead"
        /\ callers' = [callers EXCEPT ![i] =
                          IF refFile = NoRef
                          THEN Done(callers[i], Result("BranchNotFound", ZeroHash))
                          ELSE Done(callers[i], ParseHash(refFile))]
        /\ UNCHANGED <<refFile, returned, refFrame>>

RefNext ==
    \/ SetRefCall
    \/ GetRefCall
    \/ SetRefOpen
    \/ SetRefWrite
    \/ SetRefFail
    \/ GetRefRead

RefSpec == RefInit /\ [][RefNext]_vars

\* the file holds the whole line of a digest
WholeLine(content) == content \in {RefLine(h) : h \in RefTips}

\* caller j is in a SetRef, or back from one, whose line is what the file holds
WrittenBy(j, content) ==
    /\ callers[j].pc # "idle"
    /\ callers[j].op = "SetRef"
    /\ content = RefLine(callers[j].d)

\* C13: a GetRef called once the ref has been set returns a digest that was set,
\* never an error, whatever SetRef runs beside it; and a SetRef that fails leaves in
\* the file the line it held at the call (or the line another caller's SetRef wrote).
C13_RefAtomicReplace ==
    [][\A i \in 1..NumCallers :
          /\ (Returns(i, "GetRef") /\ callers[i].after)
                => (callers'[i].res.err = "" /\ callers'[i].res.hash \in RefTips)
          /\ (Returns(i, "SetRef") /\ callers'[i].res.err # "" /\ WholeLine(callers[i].old))
                => \/ refFile' = callers[i].old
                   \/ \E j \in 1..NumCallers \ {i} : WrittenBy(j, refFile')]_vars

(***************************************************************************)
(* internal/repository: the history of a branch (HistorySpec): Save, Undo, *)
(* Amend, CreateBranch, SwitchBranch and Merge --no-ff on one repository   *)
(* whose working tree stays as it is after construction.                   *)
(***************************************************************************)
\* the messages given to Amend; the empty one asks for the old message
AmendMessages == {"", "n"}

\* the names given to CreateBranch
CreateInputs == BranchNames \cup {"", "HEAD"}

History(err, hashes) == [err |-> err, hashes |-> hashes]

\* a GetCommitHistory that takes limit 0 for "no commit"
GetCommitHistoryNone(objs, startHash, limit) == History("", <<>>)

\* GetCommitHistory(startHash, limit): the first-parent chain from startHash, all of
\* it when limit is 0
RECURSIVE historyFrom(_, _, _, _, _)
historyFrom(objs, hash, limit, count, hashes) ==
    IF ~(~IsZero(hash) /\ (limit = 0 \/ count < limit)) THEN History("", hashes)
    ELSE IF ~HasCommit(objs, hash) THEN History("ObjectNotFound", <<>>)
    ELSE historyFrom(objs,
                     IF Len(hash.Parents) > 0 THEN hash.Parents[1] ELSE ZeroHash,
                     limit, count + 1, Append(hashes, hash))

GetCommitHistory(objs, startHash, limit) == historyFrom(objs, startHash, limit, 0, <<>>)

Undo ==
    \E r \in {undoOp} :
        /\ refs' = r.refs
        /\ last' = Op("Undo", <<>>, r.res)
        /\ UNCHANGED <<objects, HEAD, mergeState, workdir, labVars, otherVars>>

Amend ==
    \E message \in AmendMessages, order \in Orders(WorkPaths) :
        \E r \in {amendOp(message, order)} :
            /\ WithinBounds(r.objects)
            /\ objects' = r.objects
            /\ refs' = r.refs
            /\ last' = Op("Amend", <<message>>, r.res)
            /\ UNCHANGED <<HEAD, mergeState, workdir, labVars, otherVars>>

\* CreateBranch with every kind of name, its result kept
CreateBranchNamed ==
    \E name \in CreateInputs :
        \E r \in {createBranchOp(name)} :
            /\ refs' = r.refs
            /\ last' = Op("CreateBranch", <<name>>, r.res)
            /\ UNCHANGED <<objects, HEAD, mergeState, workdir, labVars, otherVars>>

\* Merge --no-ff: a merge commit even where the branch could be moved forward
MergeNoFF ==
    \E branch \in NameInputs, fileOrder \in Orders(WorkPaths), treeOrder \in Orders(WorkPaths) :
        \E r \in {mergeOp(branch, MergeOptions(TRUE, FALSE, ""), fileOrder, treeOrder)} :
            /\ WithinBounds(r.objects)
            /\ objects' = r.objects
            /\ refs' = r.refs
            /\ mergeState' = r.mergeState
            /\ workdir' = r.workdir
            /\ last' = Op("Merge", <<branch, MergeOptions(TRUE, FALSE, ""), CurrentTip>>, r.res)
            /\ UNCHANGED <<HEAD, labVars, otherVars>>

HistoryNext ==
    \/ Save
    \/ SwitchBranch
    \/ MergeNoFF
    \/ Undo
    \/ Amend
    \/ CreateBranchNamed

HistorySpec == Init /\ [][HistoryNext]_vars

\* the step is a successful run of op
Ran1(op) == last'.op = op /\ last'.res = "ok"

\* the first-parent chain below a ref's value
ChainBelow(objs, tip) ==
    IF tip = NoRef THEN <<>> ELSE GetCommitHistory(objs, tip, 0).hashes

\* the walk is a first-parent chain of stored commits that ends at a root
FirstParentChain(objs, hashes) ==
    /\ \A i \in DOMAIN hashes : HasCommit(objs, hashes[i])
    /\ \A i \in 1..(Len(hashes) - 1) :
          Len(hashes[i].Parents) > 0 /\ hashes[i].Parents[1] = hashes[i + 1]
    /\ Len(hashes) > 0 =>
          \/ hashes[Len(hashes)].Parents = <<>>
          \/ IsZero(hashes[Len(hashes)].Parents[1])

\* C14: every successful Save leaves the branch ref at the new commit, whose parents
\* are exactly the tip before (none on a branch without a commit), and the history
\* walk from it with limit 0 is the new commit followed by the walk from the tip
\* before: after n Saves on a fresh repository, [Cn, ..., C1].
C14_SaveHistory ==
    [][Ran1("Save") =>
          LET old == CurrentTip
              new == refs'[HEAD.name]
              walk == GetCommitHistory(objects', new, 0)
          IN  /\ HasCommit(objects', new)
              /\ new.Parents = IF old = NoRef \/ IsZero(old) THEN <<>> ELSE <<old>>
              /\ walk.err = ""
              /\ FirstParentChain(objects', walk.hashes)
              /\ walk.hashes = <<new>> \o ChainBelow(objects, old)]_vars

\* three Saves in a row on a fresh branch: the walk from the tip is [C3, C2, C1]
C14_Witness ==
    /\ last = Op("Save", <<>>, "ok")
    /\ HEAD.kind = "ref"
    /\ HasCommit(objects, CurrentTip)
    /\ \E c1, c2 \in Commits(objects) :
          /\ c1.Parents = <<>>
          /\ c2.Parents = <<c1>>
          /\ CurrentTip.Parents = <<c2>>
          /\ GetCommitHistory(objects, CurrentTip, 0).hashes = <<CurrentTip, c2, c1>>

\* C15: a successful Undo sets the current branch's ref to the first parent of its
\* tip, or to the zero digest when the tip has no parents, and changes no other ref,
\* not HEAD, no object, no working-tree file and not the merge state.
C15_Undo ==
    [][Ran1("Undo") =>
          /\ refs' = [refs EXCEPT ![HEAD.name] =
                         IF Len(CurrentTip.Parents) > 0 THEN CurrentTip.Parents[1]
                         ELSE ZeroHash]
          /\ UNCHANGED <<objects, HEAD, workdir, mergeState>>]_vars

\* Undo has run on a merge commit: the branch is at its first parent, and no branch
\* is at the merge commit any more
C15_Witness ==
    /\ last = Op("Undo", <<>>, "ok")
    /\ \E c \in Commits(objects) :
          /\ Len(c.Parents) = 2
          /\ c.Parents[1] # c.Parents[2]
          /\ CurrentTip = c.Parents[1]
          /\ \A b \in BranchNames : refs[b] # c

\* C16: a successful Amend(message) moves the current branch's ref to a new stored
\* commit that has the parent list of the tip it replaces, digest by digest in the
\* same order, and the given message, or the old tip's message when the given one is
\* empty.
C16_Amend ==
    [][Ran1("Amend") =>
          LET old == CurrentTip
              new == refs'[HEAD.name]
          IN  /\ HasCommit(objects', new)
              /\ new.Parents = old.Parents
              /\ new.Message = IF last'.arg[1] = "" THEN old.Message ELSE last'.arg[1]
              /\ refs' = [refs EXCEPT ![HEAD.name] = new]
              /\ HEAD' = HEAD]_vars

\* Amend with a new message has replaced a merge commit: the tip has the two parents
\* and the message given
C16_Witness ==
    /\ last = Op("Amend", <<"n">>, "ok")
    /\ HasCommit(objects, CurrentTip)
    /\ Len(CurrentTip.Parents) = 2
    /\ CurrentTip.Parents[1] # CurrentTip.Parents[2]
    /\ CurrentTip.Message = "n"

\* C17: CreateBranch(name) fails with InvalidBranchName for the empty name and for
\* HEAD and with BranchExists for a branch that exists, leaving every ref alone;
\* otherwise the new ref holds the current commit digest, or the zero digest when the
\* current branch has no commit yet; HEAD is never changed.
C17_CreateBranch ==
    [][last'.op = "CreateBranch" =>
          LET name == last'.arg[1] IN
          /\ HEAD' = HEAD
          /\ name \in {"", "HEAD"} => (last'.res = "InvalidBranchName" /\ refs' = refs)
          /\ (name \in BranchNames /\ refs[name] # NoRef)
                => (last'.res = "BranchExists" /\ refs' = refs)
          /\ (name \in BranchNames /\ refs[name] = NoRef)
                => /\ last'.res = "ok"
                   /\ refs' = [refs EXCEPT ![name] =
                                  IF CurrentTip = NoRef THEN ZeroHash ELSE CurrentTip]]_vars

\* CreateBranch has been refused for a branch that exists and holds a commit
C17_Witness ==
    /\ last = Op("CreateBranch", <<"feature">>, "BranchExists")
    /\ HasCommit(objects, refs["feature"])
    /\ HasCommit(objects, refs["main"])
    /\ refs["feature"] # refs["main"]

(***************************************************************************)
(* internal/merge: ancestry queries on a commit graph (GraphSpec).  The    *)
(* store holds some of the commits of a graph of GraphSize commits, each   *)
(* with up to two parents among the commits made before it; IsAncestor and *)
(* FindLCA are asked about every pair of digests the store knows of.       *)
(***************************************************************************)
GraphSize == 4

Range(q) == {q[i] : i \in DOMAIN q}

\* the parent lists a new commit can have over the commits g
ParentLists(g) ==
    {<<>>} \cup {<<g[i]>> : i \in DOMAIN g}
           \cup {<<g[ij[1]], g[ij[2]]>> :
                    ij \in {p \in (DOMAIN g) \X (DOMAIN g) : p[1] # p[2]}}

\* the graphs of n commits, in the order the commits were made
RECURSIVE Graphs(_)
Graphs(n) ==
    IF n = 0 THEN {<<>>}
    ELSE UNION {{Append(g, Commit(HashOf(Tree(<<>>)), ps, now, ToString(n))) :
                    ps \in ParentLists(g)} : g \in Graphs(n - 1)}

\* what a store can hold of a graph: any of its commits
GraphStores == UNION {SUBSET Range(g) : g \in Graphs(GraphSize)}

\* the digests the store knows of: its commits and their parents
Known(objs) == objs \cup UNION {Range(c.Parents) : c \in objs}

Query(op, a, b) == [op |-> op, a |-> a, b |-> b]
Answer(res) == [run |-> TRUE, res |-> res]

GraphInit ==
    /\ objects \in GraphStores
    /\ refs = [b \in BranchNames |-> NoRef]
    /\ HEAD = SymbolicHead("main")
    /\ mergeState = NoMergeState
    /\ workdir = [p \in WorkPaths |-> Absent]
    /\ last = NoOp
    /\ mIn = LabIdle
    /\ mFwd = NotRun
    /\ mRev = NotRun
    /\ DiskIdle
    /\ PeerIdle

graphFrame == <<repoVars, last, labVars, diskVars, remote, fetch>>

AskIsAncestor ==
    \E a \in Known(objects), b \in Known(objects) :
        /\ query' = Query("IsAncestor", a, b)
        /\ answer' = Answer(IsAncestor(objects, a, b))
        /\ UNCHANGED graphFrame

AskFindLCA ==
    \E a \in Known(objects), b \in Known(objects) :
        /\ query' = Query("FindLCA", a, b)
        /\ answer' = Answer(FindLCA(objects, a, b))
        /\ UNCHANGED graphFrame

GraphNext ==
    \/ AskIsAncestor
    \/ AskFindLCA

GraphSpec == GraphInit /\ [][GraphNext]_vars

Asked(op) == answer.run /\ query.op = op

\* the digests reached from those of S in at most n steps along parent edges, all
\* parents of every stored commit counted
RECURSIVE ReachedWithin(_, _, _)
ReachedWithin(objs, S, n) ==
    IF n = 0 THEN S
    ELSE ReachedWithin(objs,
                       S \cup UNION {Range(c.Parents) : c \in {h \in S : HasCommit(objs, h)}},
                       n - 1)

Reachable(objs, a, b) == a \in ReachedWithin(objs, {b}, GraphSize)

\* C18: IsAncestor(a, b) is true exactly when a = b or a is reached from b along
\* parent edges, over all parents of the commits the store holds; a commit the store
\* does not hold is a dead end.  So IsAncestor(x, x) is true, and IsAncestor(p, c) is
\* true for every parent p of a stored commit c.
C18_IsAncestor ==
    Asked("IsAncestor") =>
        /\ answer.res = (query.a = query.b \/ Reachable(objects, query.a, query.b))
        /\ query.a = query.b => answer.res
        /\ (HasCommit(objects, query.b) /\ query.a \in Range(query.b.Parents)) => answer.res

\* an ancestor found beyond the parents of the commit, along a second parent
C18_Witness ==
    /\ Asked("IsAncestor")
    /\ answer.res
    /\ query.a # query.b
    /\ HasCommit(objects, query.b)
    /\ query.a \notin Range(query.b.Parents)
    /\ Len(query.b.Parents) = 2
    /\ ~IsAncestor(objects, query.a, query.b.Parents[1])

\* no stored commit has more than one parent
NoMergeCommits(objs) == \A c \in objs : Len(c.Parents) <= 1

\* the first-parent chain of a digest: the digest, its first parent, and so on, to a
\* root or to a commit the store does not hold
RECURSIVE ParentChain(_, _)
ParentChain(objs, h) ==
    IF ~HasCommit(objs, h) THEN <<h>>
    ELSE IF h.Parents = <<>> THEN <<h>>
    ELSE <<h>> \o ParentChain(objs, h.Parents[1])

OnBothChains(objs, x, y) == Range(ParentChain(objs, x)) \cap Range(ParentChain(objs, y))

\* C19: in a history without merge commits FindLCA(x, y) returns the deepest commit,
\* the one with the longest chain of its own, among those on the first-parent chains
\* of both x and y (and NoCommonAncestor when the chains share nothing).
C19_FindLCA ==
    (Asked("FindLCA") /\ NoMergeCommits(objects)) =>
        IF OnBothChains(objects, query.a, query.b) = {}
        THEN answer.res = Result("NoCommonAncestor", ZeroHash)
        ELSE /\ answer.res.err = ""
             /\ answer.res.hash \in OnBothChains(objects, query.a, query.b)
             /\ \A h \in OnBothChains(objects, query.a, query.b) :
                   Len(ParentChain(objects, h)) <= Len(ParentChain(objects, answer.res.hash))

\* two branches that forked: the commit found is neither x nor y, and it is not the
\* root, which is on both chains too
C19_Witness ==
    /\ Asked("FindLCA")
    /\ NoMergeCommits(objects)
    /\ answer.res.err = ""
    /\ answer.res.hash \notin {query.a, query.b}
    /\ Cardinality(OnBothChains(objects, query.a, query.b)) = 2

(***************************************************************************)
(* internal/transfer: Fetch (FetchSpec).  The remote holds the commits of  *)
(* a graph of FetchSize commits with their trees and blobs; the local      *)
(* store holds a part of them that is closed under reachability.  The loop *)
(* of Fetch runs one iteration per step.                                   *)
(***************************************************************************)
FetchSize == 3

FetchBlob == Blob(Text(<<"a">>, FALSE))
FetchTrees == {Tree(<<>>), Tree(<<TreeEntry(ModeRegular, "f1", HashOf(FetchBlob))>>)}

RECURSIVE FetchGraphs(_)
FetchGraphs(n) ==
    IF n = 0 THEN {<<>>}
    ELSE UNION {{Append(g, Commit(HashOf(t), ps, now, ToString(n))) :
                    ps \in ParentLists(g), t \in FetchTrees} : g \in FetchGraphs(n - 1)}

\* a Fetch that enqueues the parents of a commit and not its tree
fetchChildrenParentsOnly(obj) ==
    IF obj.type = "commit" THEN obj.Parents
    ELSE IF obj.type = "tree" THEN [i \in DOMAIN obj.Entries |-> obj.Entries[i].Hash]
    ELSE <<>>

\* the children Fetch enqueues for an object it has stored: of a commit its tree, then
\* its parents; of a tree the digests of its entries; of a blob none
fetchChildren(obj) ==
    IF obj.type = "commit" THEN <<obj.Tree>> \o obj.Parents
    ELSE IF obj.type = "tree" THEN [i \in DOMAIN obj.Entries |-> obj.Entries[i].Hash]
    ELSE <<>>

\* the objects an object names
Names(obj) ==
    IF obj.type = "commit" THEN {obj.Tree} \cup Range(obj.Parents)
    ELSE IF obj.type = "tree" THEN {obj.Entries[i].Hash : i \in DOMAIN obj.Entries}
    ELSE {}

\* every object a stored object names is stored
Closed(objs) == \A o \in objs : Names(o) \subseteq objs

\* the objects of a graph: its commits, their trees, the blobs of the trees
RECURSIVE NamedWithin(_, _)
NamedWithin(S, n) ==
    IF n = 0 THEN S ELSE NamedWithin(S \cup UNION {Names(o) : o \in S}, n - 1)

Remotes == {NamedWithin(Range(g), 2) : g \in FetchGraphs(FetchSize)}

\* the tips a caller passes: one or two refs of the remote, each at a commit or at
\* the zero digest of a branch without a commit
FetchTips(rem) ==
    {<<t>> : t \in Commits(rem) \cup {ZeroHash}}
        \cup {<<t[1], t[2]>> : t \in (Commits(rem) \cup {ZeroHash}) \X Commits(rem)}

Fetching(queue, visited, tips) ==
    [run |-> TRUE, status |-> "running", queue |-> queue, visited |-> visited, tips |-> tips]

FetchInit ==
    /\ remote \in Remotes
    /\ objects \in {S \in SUBSET remote : Closed(S)}
    /\ refs = [b \in BranchNames |-> NoRef]
    /\ HEAD = SymbolicHead("main")
    /\ mergeState = NoMergeState
    /\ workdir = [p \in WorkPaths |-> Absent]
    /\ last = NoOp
    /\ mIn = LabIdle
    /\ mFwd = NotRun
    /\ mRev = NotRun
    /\ DiskIdle
    /\ query = <<>>
    /\ answer = NotRun
    /\ fetch = NotRun

fetchFrame == <<refs, HEAD, mergeState, workdir, last, labVars, diskVars, query, answer, remote>>

InLoop == fetch.run /\ fetch.status = "running" /\ Len(fetch.queue) > 0

\* Fetch(store, client, remoteTips) is called: the queue is a copy of the tips
FetchCall ==
    \E tips \in FetchTips(remote) :
        /\ ~fetch.run
        /\ fetch' = Fetching(tips, {}, tips)
        /\ UNCHANGED <<objects, fetchFrame>>

\* an iteration on a digest already visited
FetchVisited ==
    /\ InLoop
    /\ Head(fetch.queue) \in fetch.visited
    /\ fetch' = [fetch EXCEPT !.queue = Tail(fetch.queue)]
    /\ UNCHANGED <<objects, fetchFrame>>

\* an iteration on a digest the local store holds: visited, its history taken as held
FetchHave ==
    /\ InLoop
    /\ Head(fetch.queue) \notin fetch.visited
    /\ Head(fetch.queue) \in objects
    /\ fetch' = [fetch EXCEPT !.queue = Tail(fetch.queue),
                              !.visited = fetch.visited \cup {Head(fetch.queue)}]
    /\ UNCHANGED <<objects, fetchFrame>>

\* an iteration that fetches the object, stores it and enqueues its children
FetchStore ==
    /\ InLoop
    /\ Head(fetch.queue) \notin fetch.visited
    /\ Head(fetch.queue) \notin objects
    /\ Head(fetch.queue) \in remote
    /\ objects' = Put(objects, Head(fetch.queue))
    /\ fetch' = [fetch EXCEPT !.queue = Tail(fetch.queue) \o fetchChildren(Head(fetch.queue)),
                              !.visited = fetch.visited \cup {Head(fetch.queue)}]
    /\ UNCHANGED fetchFrame

\* an iteration whose FetchObject fails: the remote does not hold the digest
FetchMissing ==
    /\ InLoop
    /\ Head(fetch.queue) \notin fetch.visited
    /\ Head(fetch.queue) \notin objects
    /\ Head(fetch.queue) \notin remote
    /\ fetch' = [fetch EXCEPT !.status = "error"]
    /\ UNCHANGED <<objects, fetchFrame>>

\* an iteration whose store.Put fails
FetchPutFails ==
    /\ InLoop
    /\ Head(fetch.queue) \notin fetch.visited
    /\ Head(fetch.queue) \notin objects
    /\ Head(fetch.queue) \in remote
    /\ fetch' = [fetch EXCEPT !.status = "error"]
    /\ UNCHANGED <<objects, fetchFrame>>

\* the queue is empty: Fetch returns nil
FetchReturn ==
    /\ fetch.run
    /\ fetch.status = "running"
    /\ Len(fetch.queue) = 0
    /\ fetch' = [fetch EXCEPT !.status = "ok"]
    /\ UNCHANGED <<objects, fetchFrame>>

\* the steps Fetch takes once called
FetchLoop ==
    \/ FetchVisited
    \/ FetchHave
    \/ FetchStore
    \/ FetchMissing
    \/ FetchPutFails
    \/ FetchReturn

FetchNext ==
    \/ FetchCall
    \/ FetchLoop

\* Fetch is a synchronous call: once called it keeps running until it returns
FetchSpec == FetchInit /\ [][FetchNext]_vars /\ WF_vars(FetchLoop)

\* every object reached from the tips through the objects of the remote and of the
\* local store
ReachedFrom(tips) == NamedWithin(Range(tips), 2 * FetchSize)

FetchDone == fetch.run /\ fetch.status # "running"

\* C20: from a local store closed under reachability, with a remote that serves the
\* object of each digest asked for, Fetch(tips) returns; and when it returns success
\* the local store holds every object reachable from the tips and is closed under
\* reachability.
C20_Fetch ==
    /\ (fetch.run ~> FetchDone)
    /\ []((fetch.run /\ fetch.status = "ok") =>
             /\ ReachedFrom(fetch.tips) \subseteq objects
             /\ Closed(objects))

\* a Fetch has returned success after storing a commit with its tree and blob and
\* stopping at a commit the local store held
C20_Witness ==
    /\ fetch.run
    /\ fetch.status = "ok"
    /\ \E c \in fetch.visited :
          /\ c.type = "commit"
          /\ c.Tree \in fetch.visited
          /\ FetchBlob \in fetch.visited
          /\ \E i \in DOMAIN c.Parents : c.Parents[i] \in fetch.visited
    /\ Cardinality(fetch.visited) < Cardinality(objects)

(***************************************************************************)
(* internal/transfer: CalculatePushPack (PushSpec).  The local store holds *)
(* the objects of a graph of FetchSize commits, all of them or all but     *)
(* one; the pack is computed for every choice of local and remote tips.    *)
(***************************************************************************)
Pack(err, hashes) == [err |-> err, hashes |-> hashes]

\* the loop of CalculatePushPack: a digest already visited or in haveSet is dropped,
\* an object the store cannot read ends the call with an error, every other object
\* is added to the result and its children are enqueued as Fetch enqueues them
RECURSIVE pushWalk(_, _, _, _, _)
pushWalk(objs, queue, visited, haveSet, result) ==
    IF Len(queue) = 0 THEN Pack("", result)
    ELSE LET current == Head(queue) IN
         IF current \in visited THEN pushWalk(objs, Tail(queue), visited, haveSet, result)
         ELSE IF current \in haveSet
         THEN pushWalk(objs, Tail(queue), visited, haveSet, result)
         ELSE IF current \notin objs THEN Pack("ObjectNotFound", <<>>)
         ELSE pushWalk(objs, Tail(queue) \o fetchChildren(current),
                       visited \cup {current}, haveSet, Append(result, current))

\* a CalculatePushPack that does not look at the remote tips
CalculatePushPackAll(objs, localTips, remoteTips) == pushWalk(objs, localTips, {}, {}, <<>>)

CalculatePushPack(objs, localTips, remoteTips) ==
    pushWalk(objs, localTips, {}, Range(remoteTips), <<>>)

\* the local stores: the objects of a graph, or all of them but one
PushStores == Remotes \cup UNION {{R \ {o} : o \in R} : R \in Remotes}

\* tips: up to two digests among the commits the store holds or names
TipLists(S) == {<<>>} \cup {<<t>> : t \in S} \cup {<<t[1], t[2]>> : t \in S \X S}

PushInit ==
    /\ objects \in PushStores
    /\ refs = [b \in BranchNames |-> NoRef]
    /\ HEAD = SymbolicHead("main")
    /\ mergeState = NoMergeState
    /\ workdir = [p \in WorkPaths |-> Absent]
    /\ last = NoOp
    /\ mIn = LabIdle
    /\ mFwd = NotRun
    /\ mRev = NotRun
    /\ DiskIdle
    /\ PeerIdle

\* CalculatePushPack(store, local, remote) is called
AskPushPack ==
    \E local \in TipLists(Commits(NamedWithin(objects, 1))) \ {<<>>},
       rem \in TipLists(Commits(NamedWithin(objects, 1))) :
        /\ ~answer.run
        /\ query' = Query("PushPack", local, rem)
        /\ answer' = Answer(CalculatePushPack(objects, local, rem))
        /\ UNCHANGED graphFrame

PushNext == AskPushPack

PushSpec == PushInit /\ [][PushNext]_vars

\* the objects reached from those of S along paths that hold no member of have
RECURSIVE ReachedOutside(_, _, _)
ReachedOutside(S, have, n) ==
    IF n = 0 THEN S \ have
    ELSE ReachedOutside((S \ have) \cup UNION {Names(o) : o \in S \ have}, have, n - 1)

Closure(S) == NamedWithin(S, 2 * FetchSize)

\* C21: a CalculatePushPack that succeeds returns a list without duplicates that
\* holds exactly the objects reached from the local tips along paths with no member
\* of the remote tips; a receiver that holds the closure of the remote tips holds the
\* closure of the local tips once it has stored the objects of the list.
C21_PushPack ==
    (Asked("PushPack") /\ answer.res.err = "") =>
        /\ Cardinality(Range(answer.res.hashes)) = Len(answer.res.hashes)
        /\ Range(answer.res.hashes)
              = ReachedOutside(Range(query.a), Range(query.b), 2 * FetchSize)
        /\ Closure(Range(query.a))
              \subseteq Closure(Range(query.b)) \cup Range(answer.res.hashes)

\* a pack that stops at a remote tip: it holds a commit, its tree and a blob, and
\* leaves out what lies behind the remote tip
C21_Witness ==
    /\ Asked("PushPack")
    /\ answer.res.err = ""
    /\ FetchBlob \in Range(answer.res.hashes)
    /\ \E c \in Range(answer.res.hashes) :
          /\ c.type = "commit"
          /\ \E i \in DOMAIN c.Parents : c.Parents[i] \in Range(query.b)
    /\ Closure(Range(query.a)) \ Range(answer.res.hashes) # {}
    /\ Len(query.a) = 2

\* every stored commit's tree is a stored tree, and every entry of a stored tree is
\* a stored blob or tree
Resolves(objs) ==
    /\ \A c \in Commits(objs) : HasTree(objs, c.Tree)
    /\ \A t \in {o \in objs : o.type = "tree"} :
          \A i \in DOMAIN t.Entries :
              /\ t.Entries[i].Hash \in objs
              /\ t.Entries[i].Hash.type \in {"blob", "tree"}

\* C22: whenever no Fetch is running, the calls that failed part-way included, every
\* stored commit's tree digest resolves to a stored tree and every stored tree
\* entry's digest to a stored blob or tree.
C22_StoredObjectsResolve ==
    (fetch.run => fetch.status # "running") => Resolves(objects)

(***************************************************************************)
(* internal/protocol: the HTTP server.  The server serves the object store *)
(* and the refs of one repository; one request is handled per step.  The   *)
(* authenticator is an interface, so its verdict on a request is an input. *)
(***************************************************************************)
ServerTree == Tree(<<>>)
ServerRoot == Commit(HashOf(ServerTree), <<>>, now, "1")
ServerChild == Commit(HashOf(ServerTree), <<HashOf(ServerRoot)>>, now, "2")
ServerObjects == {ServerTree, ServerRoot, ServerChild}

\* the names refs/heads/<name> a request or a CreateBranch call can name
ServerRefNames == BranchNames \cup {"", "HEAD"}

\* a digest as text: the 64 hex digits, or a text that is no digest
HashTexts(S) == {RefText(HashOf(o), "digits") : o \in S} \cup {RefText(ZeroHash, "some digits")}

Methods == {"GET", "POST", "DELETE"}
Request(method, route, name, body) ==
    [method |-> method, route |-> route, name |-> name, body |-> body]
Malformed == [type |-> "malformed"]
NoBody == [type |-> "nobody"]
Batch(list) == [type |-> "batch", list |-> list]

\* the requests of the clients: every route with every method, the object batches of
\* one or two objects, and a body that does not decode
Requests ==
    {Request(m, "/info/refs", "", NoBody) : m \in Methods}
    \cup {Request("GET", "/objects/", "", t) : t \in HashTexts(ServerObjects)}
    \cup {Request("GET", "/objects/", "", NoBody), Request("DELETE", "/objects/", "", NoBody)}
    \cup {Request("POST", "/objects/", "", b) :
             b \in {Batch(<<o>>) : o \in ServerObjects}
                   \cup {Batch(<<ServerChild, ServerTree>>), Batch(<<ServerTree, ServerRoot>>),
                         Malformed}}
    \cup {Request(m, "/refs/heads/", n, NoBody) : m \in {"GET", "DELETE"}, n \in ServerRefNames}
    \cup {Request("POST", "/refs/heads/", n, t) :
             n \in ServerRefNames, t \in HashTexts(Commits(ServerObjects)) \cup {Malformed}}

Response(status, body, objs, rs) == [status |-> status, body |-> body, objects |-> objs, refs |-> rs]

\* handleInfoRefs: HEAD's commit and every branch that has a readable ref
handleInfoRefs(objs, rs, head, r) ==
    IF r.method # "GET" THEN Response(405, "Method not allowed", objs, rs)
    ELSE Response(200,
                  [HEAD |-> GetCurrentCommit(head, rs),
                   heads |-> {<<n, rs[n]>> : n \in {b \in DOMAIN rs : rs[b] # NoRef}}],
                  objs, rs)

\* the loop of POST /objects/: every object is put until a Put fails
RECURSIVE putAll(_, _, _, _)
putAll(objs, rs, body, failAt) ==
    IF body = <<>> THEN Response(201, "", objs, rs)
    ELSE IF failAt = 1 THEN Response(500, "Failed to store object", objs, rs)
    ELSE putAll(objs \cup {Head(body)}, rs, Tail(body), failAt - 1)

\* handleObjectRequest; failAt is the Put that fails, 0 for none
handleObjectRequest(objs, rs, r, failAt) ==
    IF r.method = "GET" THEN
        IF r.body = NoBody THEN Response(400, "Missing hash", objs, rs)
        ELSE IF ParseHash(r.body).err # "" THEN Response(400, "Invalid hash", objs, rs)
        ELSE IF ParseHash(r.body).hash \notin objs THEN Response(404, "Object not found", objs, rs)
        ELSE Response(200, ParseHash(r.body).hash, objs, rs)
    ELSE IF r.method = "POST" THEN
        IF r.body = Malformed THEN Response(400, "Invalid request body", objs, rs)
        ELSE putAll(objs, rs, r.body.list, failAt)
    ELSE Response(405, "Method not allowed", objs, rs)

\* handleRefRequest; setFails says that SetRef's write fails
handleRefRequest(objs, rs, r, setFails) ==
    IF r.name = "" THEN Response(400, "Missing branch name", objs, rs)
    ELSE IF r.method = "GET" THEN
        IF GetRef(rs, r.name).err # "" THEN Response(404, "Ref not found", objs, rs)
        ELSE Response(200, GetRef(rs, r.name).hash, objs, rs)
    ELSE IF r.method = "POST" THEN
        IF r.body = Malformed THEN Response(400, "Invalid request", objs, rs)
        ELSE IF ParseHash(r.body).err # "" THEN Response(400, "Invalid hash", objs, rs)
        ELSE IF setFails THEN Response(500, "Failed to update ref", objs, rs)
        ELSE Response(200, "", objs, SetRef(rs, r.name, ParseHash(r.body).hash))
    ELSE Response(405, "Method not allowed", objs, rs)

\* the mux: the handler registered for the route
muxServeHTTP(objs, rs, head, r, failAt, setFails) ==
    IF r.route = "/info/refs" THEN handleInfoRefs(objs, rs, head, r)
    ELSE IF r.route = "/objects/" THEN handleObjectRequest(objs, rs, r, failAt)
    ELSE handleRefRequest(objs, rs, r, setFails)

\* a server that answers 401 after the handler ran
serveHTTPLate(objs, rs, head, r, authFails, failAt, setFails) ==
    IF authFails
    THEN [muxServeHTTP(objs, rs, head, r, failAt, setFails) EXCEPT
              !.status = 401, !.body = "Unauthorized"]
    ELSE muxServeHTTP(objs, rs, head, r, failAt, setFails)

\* Server.ServeHTTP: the authenticator first, the mux when it passes the request
serveHTTP(objs, rs, head, r, authFails, failAt, setFails) ==
    IF authFails THEN Response(401, "Unauthorized", objs, rs)
    ELSE muxServeHTTP(objs, rs, head, r, failAt, setFails)

ServerInit ==
    /\ objects = {}
    /\ refs = [b \in ServerRefNames |-> NoRef]
    /\ HEAD = SymbolicHead("main")
    /\ mergeState = NoMergeState
    /\ workdir = [p \in WorkPaths |-> Absent]
    /\ last = NoOp
    /\ mIn = LabIdle
    /\ mFwd = NotRun
    /\ mRev = NotRun
    /\ DiskIdle
    /\ PeerIdle

\* the faults of the disk a request can meet: the Put of a batch that fails (0 for
\* none), and a SetRef whose write fails
PutFaults(r) ==
    IF r.method = "POST" /\ r.route = "/objects/" /\ r.body # Malformed
    THEN 0 .. Len(r.body.list) ELSE {0}
SetRefFaults(r) ==
    IF r.method = "POST" /\ r.route = "/refs/heads/" THEN BOOLEAN ELSE {FALSE}

\* one request, from its arrival to the response
ServeHTTP ==
    \E r \in Requests, authFails \in BOOLEAN :
      \E failAt \in PutFaults(r), setFails \in SetRefFaults(r) :
        \E w \in {serveHTTP(objects, refs, HEAD, r, authFails, failAt, setFails)} :
            /\ objects' = w.objects
            /\ refs' = w.refs
            /\ last' = Op("ServeHTTP", <<r, authFails>>, [status |-> w.status, body |-> w.body])
            /\ UNCHANGED <<HEAD, mergeState, workdir, labVars, otherVars>>

ServerNext ==
    \/ ServeHTTP
    \/ CreateBranchNamed

ServerSpec == ServerInit /\ [][ServerNext]_vars

\* C23: after any sequence of CreateBranch calls and requests to the server, neither
\* refs/heads/ with the empty name nor refs/heads/HEAD holds a ref.
C23_RefNames ==
    refs[""] = NoRef /\ refs["HEAD"] = NoRef

Served == last.op = "ServeHTTP"

\* C24: a request the authenticator fails is answered 401, and the object store and
\* the refs are what they were before the request.
C24_Unauthorized ==
    [][(Served' /\ last'.arg[2]) =>
          /\ last'.res.status = 401
          /\ objects' = objects
          /\ refs' = refs]_vars

\* a request that would have stored an object or set a ref was refused by the
\* authenticator
C24_Witness ==
    /\ Served
    /\ last.arg[2]
    /\ last.res.status = 401
    /\ last.arg[1].method = "POST"
    /\ last.arg[1].route = "/refs/heads/"
    /\ last.arg[1].name = "main"
    /\ last.arg[1].body = RefText(HashOf(ServerChild), "digits")
    /\ refs["main"] = HashOf(ServerRoot)

\* C29: a POST /refs/heads/<name> whose digest is not a descendant of the commit the
\* ref is at is not answered 200 and leaves the ref where it was.
C29_FastForwardOnly ==
    [][(/\ Served'
        /\ ~last'.arg[2]
        /\ last'.arg[1].method = "POST"
        /\ last'.arg[1].route = "/refs/heads/"
        /\ last'.arg[1].name \in BranchNames
        /\ last'.arg[1].body # Malformed
        /\ ParseHash(last'.arg[1].body).err = ""
        /\ refs[last'.arg[1].name] \in Commits(ServerObjects)
        /\ ~IsAncestor(ServerObjects, refs[last'.arg[1].name], ParseHash(last'.arg[1].body).hash))
       => (last'.res.status # 200 /\ refs' = refs)]_vars

(***************************************************************************)
(* internal/diff: Patch.  A text is diffed against another and the diff is *)
(* applied to the first.                                                   *)
(***************************************************************************)
MaxPatchLines == 3

Patched(panic, text) == [panic |-> panic, text |-> text]

\* ApplyHunk: the lines before OldStart, the hunk's equal and inserted lines, the
\* lines from OldStart + OldCount on, joined with "\n"; lines[:OldStart] panics
\* beyond the end of the text
ApplyHunk(text, hunk) ==
    LET lines == splitLines(text)
        kept == SelectSeq(hunk.Edits, LAMBDA e : e.type \in {EditEqual, EditInsert})
    IN  IF hunk.OldStart > Len(lines) THEN Patched(TRUE, EmptyText)
        ELSE Patched(FALSE,
                     joinLines(SubSeq(lines, 1, hunk.OldStart)
                               \o [i \in DOMAIN kept |-> kept[i].text]
                               \o (IF hunk.OldStart + hunk.OldCount < Len(lines)
                                   THEN SubSeq(lines, hunk.OldStart + hunk.OldCount + 1, Len(lines))
                                   ELSE <<>>)))

RECURSIVE patchFrom(_, _, _)
patchFrom(result, hunks, h) ==
    IF h > Len(hunks) THEN Patched(FALSE, result)
    ELSE LET Next1(r) == IF r.panic THEN r ELSE patchFrom(r.text, hunks, h + 1)
         IN  Next1(ApplyHunk(result, hunks[h]))

\* Patch: every hunk applied in turn to the result of the one before
Patch(text, diff) == patchFrom(text, diff.Hunks, 1)

\* Patch(a, MyersDiff(a, b))
patchOfDiff(a, b) ==
    LET Applied(d) == IF d.panic THEN Patched(TRUE, EmptyText) ELSE Patch(a, d)
    IN  Applied(MyersDiff(a, b))

PatchInit ==
    /\ objects = {}
    /\ refs = [b \in BranchNames |-> NoRef]
    /\ HEAD = SymbolicHead("main")
    /\ mergeState = NoMergeState
    /\ workdir = [p \in WorkPaths |-> Absent]
    /\ last = NoOp
    /\ mIn = LabIdle
    /\ mFwd = NotRun
    /\ mRev = NotRun
    /\ DiskIdle
    /\ query \in {Query("Patch", a, b) : a, b \in TextsUpTo(MaxPatchLines)}
    /\ answer = NotRun
    /\ remote = {}
    /\ fetch = NotRun

RunPatch ==
    /\ ~answer.run
    /\ answer' = Answer(patchOfDiff(query.a, query.b))
    /\ UNCHANGED <<query, graphFrame>>

PatchNext == RunPatch

PatchSpec == PatchInit /\ [][PatchNext]_vars

\* C25: for any two texts a and b, Patch(a, MyersDiff(a, b)) returns b.
C25_PatchRoundTrip ==
    answer.run => answer.res = Patched(FALSE, query.b)

(***************************************************************************)
(* internal/core: the commit codec.  The bytes of an encoded commit are a  *)
(* sequence of tokens: single characters, and the digits of a digest or of *)
(* a number taken as one token each.                                       *)
(***************************************************************************)
Ch(c) == [t |-> "ch", c |-> c]
Hex(h) == [t |-> "hex", h |-> h]          \* Hash.String(): 64 hex digits
Num(n) == [t |-> "num", n |-> n]          \* %d
Sp == Ch(" ")
Nl == Ch("\n")
Word(w) == <<Ch(w)>>                      \* a key of a header line

\* the characters of the strings a caller puts into a commit
CodecAuthors == SeqsUpTo({Ch("x"), Sp, Ch("<")}, 2)
CodecEmails == SeqsUpTo({Ch("x"), Ch(">")}, 1)
CodecMessages == SeqsUpTo({Ch("x"), Sp, Nl}, 2)
CodecTimestamps == {0, 7}
CodecParents == {HashOf(ServerRoot), HashOf(ServerChild)}
CodecParentLists == SeqsUpTo(CodecParents, 2)

CoreCommit(tree, parents, author, email, timestamp, message) ==
    [Tree |-> tree, Parents |-> parents, Author |-> author, Email |-> email,
     Timestamp |-> timestamp, Message |-> message]

CodecCommits ==
    {CoreCommit(HashOf(ServerTree), ps, a, e, ts, m) :
        ps \in CodecParentLists, a \in CodecAuthors, e \in CodecEmails,
        ts \in CodecTimestamps, m \in CodecMessages}

\* the one Parent field of core.Commit: the zero digest for a commit without a
\* parent; of the parents its callers give a commit, the field holds one
ParentField(parents, keep) == IF parents = <<>> THEN ZeroHash ELSE parents[keep]

\* EncodeCommit: the tree line, a parent line for a non-zero Parent, the author
\* line, an empty line, the message and a newline
EncodeCommit(c, keep) ==
    Word("tree") \o <<Sp, Hex(c.Tree), Nl>>
    \o (IF ~IsZero(ParentField(c.Parents, keep))
        THEN Word("parent") \o <<Sp, Hex(ParentField(c.Parents, keep)), Nl>> ELSE <<>>)
    \o Word("author") \o <<Sp>> \o c.Author \o <<Sp, Ch("<")>> \o c.Email
    \o <<Ch(">"), Sp, Num(c.Timestamp), Nl>>
    \o <<Nl>> \o c.Message \o <<Nl>>

\* bytes.Split(data, sep)
RECURSIVE splitFrom(_, _, _, _)
splitFrom(data, sep, i, cur) ==
    IF i > Len(data) THEN <<cur>>
    ELSE IF data[i] = sep THEN <<cur>> \o splitFrom(data, sep, i + 1, <<>>)
    ELSE splitFrom(data, sep, i + 1, Append(cur, data[i]))
bytesSplit(data, sep) == splitFrom(data, sep, 1, <<>>)

\* bytes.IndexByte, counted from 1; 0 when the byte does not occur
IndexByte(q, c) ==
    IF \E i \in DOMAIN q : q[i] = c THEN CHOOSE i \in DOMAIN q : q[i] = c /\ \A j \in 1..(i - 1) : q[j] # c
    ELSE 0

\* bytes.Join(lines, "\n")
RECURSIVE bytesJoin(_)
bytesJoin(lines) ==
    IF lines = <<>> THEN <<>>
    ELSE IF Len(lines) = 1 THEN lines[1]
    ELSE lines[1] \o <<Nl>> \o bytesJoin(Tail(lines))

\* bytes.TrimSpace
RECURSIVE TrimLeft(_)
TrimLeft(q) == IF q # <<>> /\ Head(q) \in {Sp, Nl} THEN TrimLeft(Tail(q)) ELSE q
RECURSIVE TrimRight(_)
TrimRight(q) ==
    IF q # <<>> /\ q[Len(q)] \in {Sp, Nl} THEN TrimRight(SubSeq(q, 1, Len(q) - 1)) ELSE q
TrimSpace(q) == TrimRight(TrimLeft(q))

Decoded(err, commit) == [err |-> err, commit |-> commit]
ZeroCommit == [Tree |-> ZeroHash, Parent |-> ZeroHash, Author |-> <<>>, Email |-> <<>>,
               Timestamp |-> 0, Message |-> <<>>]

\* fmt.Sscanf(text, "%d", &timestamp): leading spaces are skipped; the timestamp
\* stays 0 when no number follows
scanNumber(text) ==
    IF TrimLeft(text) # <<>> /\ Head(TrimLeft(text)).t = "num" THEN Head(TrimLeft(text)).n ELSE 0

\* the "author" case of DecodeCommit on the value of the line
decodeAuthor(commit, value) ==
    LET emailStart == IndexByte(value, Ch("<"))
        emailEnd == IndexByte(value, Ch(">"))
    IN  IF Len(bytesSplit(value, Sp)) < 3 THEN Decoded("invalid author format", commit)
        ELSE IF emailStart = 0 \/ emailEnd = 0 THEN Decoded("invalid email format", commit)
        ELSE IF emailEnd < emailStart \/ emailEnd + 1 > Len(value)
             THEN Decoded("panic", commit)       \* slice bounds out of range
        ELSE Decoded("", [commit EXCEPT
                 !.Author = TrimSpace(SubSeq(value, 1, emailStart - 1)),
                 !.Email = SubSeq(value, emailStart + 1, emailEnd - 1),
                 !.Timestamp = scanNumber(SubSeq(value, emailEnd + 2, Len(value)))])

\* one header line of DecodeCommit
decodeLine(commit, line) ==
    LET sp == IndexByte(line, Sp)
        key == SubSeq(line, 1, sp - 1)
        value == SubSeq(line, sp + 1, Len(line))
        IsHash == Len(value) = 1 /\ value[1].t = "hex"
    IN  IF sp = 0 THEN Decoded("", commit)
        ELSE IF key = Word("tree")
             THEN IF IsHash THEN Decoded("", [commit EXCEPT !.Tree = value[1].h])
                  ELSE Decoded("invalid tree hash", commit)
        ELSE IF key = Word("parent")
             THEN IF IsHash THEN Decoded("", [commit EXCEPT !.Parent = value[1].h])
                  ELSE Decoded("invalid parent hash", commit)
        ELSE IF key = Word("author") THEN decodeAuthor(commit, value)
        ELSE Decoded("", commit)

\* the loop of DecodeCommit over the lines, up to the first empty line
RECURSIVE decodeLines(_, _, _)
decodeLines(commit, lines, i) ==
    IF i > Len(lines) THEN [err |-> "", commit |-> commit, messageStart |-> 0]
    ELSE IF lines[i] = <<>> THEN [err |-> "", commit |-> commit, messageStart |-> i + 1]
    ELSE LET Rest(r) == IF r.err # "" THEN [err |-> r.err, commit |-> r.commit, messageStart |-> 0]
                        ELSE decodeLines(r.commit, lines, i + 1)
         IN  Rest(decodeLine(commit, lines[i]))

\* DecodeCommit; the commit it returns, with the Parent field as the list of
\* parents its callers read
DecodeCommit(data) ==
    LET lines == bytesSplit(data, Nl)
        Parents(h) == IF IsZero(h) THEN <<>> ELSE <<h>>
        Finish(r) ==
            IF r.err # "" THEN Decoded(r.err, ZeroCommit)
            ELSE Decoded("",
                   CoreCommit(r.commit.Tree, Parents(r.commit.Parent), r.commit.Author,
                              r.commit.Email, r.commit.Timestamp,
                              IF r.messageStart > 1 /\ r.messageStart <= Len(lines)
                              THEN TrimSpace(bytesJoin(SubSeq(lines, r.messageStart, Len(lines))))
                              ELSE <<>>))
    IN  IF Len(lines) < 4 THEN Decoded("InvalidCommit", ZeroCommit)
        ELSE Finish(decodeLines(ZeroCommit, lines, 1))

CodecInit ==
    /\ objects = {}
    /\ refs = [b \in BranchNames |-> NoRef]
    /\ HEAD = SymbolicHead("main")
    /\ mergeState = NoMergeState
    /\ workdir = [p \in WorkPaths |-> Absent]
    /\ last = NoOp
    /\ mIn = LabIdle
    /\ mFwd = NotRun
    /\ mRev = NotRun
    /\ DiskIdle
    /\ query \in {Query("RoundTrip", c, <<>>) : c \in CodecCommits}
    /\ answer = NotRun
    /\ remote = {}
    /\ fetch = NotRun

\* DecodeCommit(EncodeCommit(c))
RoundTrip ==
    /\ ~answer.run
    /\ \E keep \in 1 .. 2 :
          /\ keep <= Len(query.a.Parents) \/ keep = 1
          /\ answer' = Answer(DecodeCommit(EncodeCommit(query.a, keep)))
    /\ UNCHANGED <<query, graphFrame>>

CodecNext == RoundTrip

CodecSpec == CodecInit /\ [][CodecNext]_vars

\* C26: for any commit c, DecodeCommit(EncodeCommit(c)) succeeds and returns a commit
\* equal to c in every field, the list of parents included.
C26_CommitRoundTrip ==
    answer.run => answer.res = Decoded("", query.a)

(***************************************************************************)
(* Merge with a strategy.  The repository holds a base commit and, on main *)
(* and on feature, one commit each on top of it; every commit's tree holds *)
(* the file f1.  HEAD is on main, with main's tree checked out.            *)
(***************************************************************************)
Strategies == {"", "recursive", "ours", "theirs"}

\* the tree Save builds from a working tree that holds f1 with the given text
TreeOf(text) == buildTree([p \in {"f1"} |-> File(text, FALSE)], <<"f1">>)

BaseCommit(b) == Commit(HashOf(TreeOf(b)), <<>>, now, "m")
SideCommit(b, text) == Commit(HashOf(TreeOf(text)), <<HashOf(BaseCommit(b))>>, now, "m")

StrategyInit ==
    /\ \E b, o, t \in TextsUpTo(MaxLines) :
          /\ objects = {Blob(b), Blob(o), Blob(t), TreeOf(b), TreeOf(o), TreeOf(t),
                        BaseCommit(b), SideCommit(b, o), SideCommit(b, t)}
          /\ refs = [n \in BranchNames |->
                        IF n = "main" THEN HashOf(SideCommit(b, o)) ELSE HashOf(SideCommit(b, t))]
          /\ workdir = [p \in WorkPaths |-> File(o, FALSE)]
    /\ HEAD = SymbolicHead("main")
    /\ mergeState = NoMergeState
    /\ last = NoOp
    /\ mIn = LabIdle
    /\ mFwd = NotRun
    /\ mRev = NotRun
    /\ DiskIdle
    /\ PeerIdle

\* Merge with every strategy
MergeStrategy ==
    \E branch \in NameInputs, strategy \in Strategies,
       fileOrder \in Orders(WorkPaths), treeOrder \in Orders(WorkPaths) :
        \E r \in {mergeOp(branch, MergeOptions(FALSE, FALSE, strategy), fileOrder, treeOrder)} :
            /\ WithinBounds(r.objects)
            /\ objects' = r.objects
            /\ refs' = r.refs
            /\ mergeState' = r.mergeState
            /\ workdir' = r.workdir
            /\ last' = Op("Merge", <<branch, MergeOptions(FALSE, FALSE, strategy), CurrentTip>>,
                          r.res)
            /\ UNCHANGED <<HEAD, labVars, otherVars>>

StrategyNext ==
    \/ MergeStrategy
    \/ AbortMerge

StrategySpec == StrategyInit /\ [][StrategyNext]_vars

\* the blob a commit's tree holds at f1
BlobAt(commit) == buildFileMap(commit.Tree)["f1"]

\* the three commits of a three-way merge hold f1 with pairwise different blobs
PairwiseDifferent(base, ours, theirs) ==
    /\ "f1" \in DOMAIN buildFileMap(base.Tree)
    /\ "f1" \in DOMAIN buildFileMap(ours.Tree)
    /\ "f1" \in DOMAIN buildFileMap(theirs.Tree)
    /\ BlobAt(base) # BlobAt(ours)
    /\ BlobAt(base) # BlobAt(theirs)
    /\ BlobAt(ours) # BlobAt(theirs)

\* C27: a three-way Merge with strategy ours (theirs) of commits that hold a path
\* with pairwise different blobs ends without conflict, no content merge having
\* failed, and the merge commit's tree holds ours' (theirs') blob at the path.
C27_StrategyShortCircuit ==
    [][(/\ last'.op = "Merge"
        /\ last'.arg[2].Strategy \in {"ours", "theirs"}
        /\ mergeState = NoMergeState
        /\ last'.arg[1] = "feature"
        /\ CurrentTip \in Commits(objects)
        /\ refs["feature"] \in Commits(objects)
        /\ ~IsAncestor(objects, CurrentTip, refs["feature"])
        /\ FindLCA(objects, CurrentTip, refs["feature"]).err = ""
        /\ PairwiseDifferent(FindLCA(objects, CurrentTip, refs["feature"]).hash,
                             CurrentTip, refs["feature"]))
       => /\ last'.res = "merged"
          /\ mergeState' = NoMergeState
          /\ refs'["main"].Parents = <<CurrentTip, refs["feature"]>>
          /\ BlobAt(refs'["main"]) =
                IF last'.arg[2].Strategy = "ours" THEN BlobAt(CurrentTip)
                ELSE BlobAt(refs["feature"])]_vars

\* a text holds conflict markers
HasMarkers(text) == \E i \in DOMAIN text.lines : text.lines[i] = ConflictPlaceholder

\* C28: after a Merge that ends with conflicts, every file the working tree held at a
\* conflicted path holds conflict markers.
C28_ConflictMarkersWritten ==
    [][(last'.op = "Merge" /\ last'.res = "conflicts")
          => \A i \in DOMAIN mergeState'.Conflicts :
                workdir[mergeState'.Conflicts[i].Path] # Absent
                   => /\ workdir'[mergeState'.Conflicts[i].Path] # Absent
                      /\ HasMarkers(workdir'[mergeState'.Conflicts[i].Path].data)]_vars

(***************************************************************************)
(* Save over a working tree of two paths.  The working tree is fixed; the  *)
(* workers of buildTree deliver their entries in every order.              *)
(***************************************************************************)
\* the files of the working tree: regular or executable, or none at a path
TreeFiles == {File(t, e) : t \in WorkTexts, e \in BOOLEAN} \cup {Absent}

TreeInit ==
    /\ objects = {}
    /\ refs = [b \in BranchNames |-> NoRef]
    /\ HEAD = SymbolicHead("main")
    /\ mergeState = NoMergeState
    /\ workdir \in [Paths -> TreeFiles]
    /\ last = NoOp
    /\ mIn = LabIdle
    /\ mFwd = NotRun
    /\ mRev = NotRun
    /\ DiskIdle
    /\ PeerIdle

\* Save(nil, message), its workers finishing in the order `order`
SaveInOrder ==
    \E message \in Messages, order \in Orders(Paths) :
        \E r \in {saveOp(message, order)} :
            /\ WithinBounds(r.objects)
            /\ objects' = r.objects
            /\ refs' = r.refs
            /\ last' = Op("Save", <<order>>, r.res)
            /\ UNCHANGED <<HEAD, mergeState, workdir, labVars, otherVars>>

TreeNext == SaveInOrder

TreeSpec == TreeInit /\ [][TreeNext]_vars

\* C30: a Save of the files the previous Save saw, unchanged, stores a commit with
\* the same tree digest, whatever the order of the workers.
C30_SameTreeDigest ==
    [][(/\ last'.op = "Save"
        /\ last'.res = "ok"
        /\ workdir' = workdir
        /\ CurrentTip \in Commits(objects))
       => refs'["main"].Tree = CurrentTip.Tree]_vars

(***************************************************************************)
(* internal/merge: FindLCA in histories with merge commits (GraphSpec).    *)
(***************************************************************************)
\* q without the members of S and without repetitions, first occurrences kept
RECURSIVE Fresh(_, _)
Fresh(q, S) ==
    IF q = <<>> THEN <<>>
    ELSE IF Head(q) \in S THEN Fresh(Tail(q), S)
    ELSE <<Head(q)>> \o Fresh(Tail(q), S \cup {Head(q)})

\* the parents of the commits of a level, in the order of the level
RECURSIVE ParentsOf(_, _)
ParentsOf(objs, level) ==
    IF level = <<>> THEN <<>>
    ELSE (IF HasCommit(objs, Head(level)) THEN Head(level).Parents ELSE <<>>)
         \o ParentsOf(objs, Tail(level))

\* the breadth-first order from a digest, level after level: the digest, its
\* parents, their parents not seen before, and so on
RECURSIVE LevelsFrom(_, _, _, _)
LevelsFrom(objs, level, seen, n) ==
    IF n = 0 \/ level = <<>> THEN <<>>
    ELSE level \o LevelsFrom(objs, Fresh(ParentsOf(objs, level), seen \cup Range(level)),
                             seen \cup Range(level), n - 1)

BreadthFirst(objs, y) == LevelsFrom(objs, <<y>>, {}, GraphSize + 1)

AncestorSet(objs, x) == ReachedWithin(objs, {x}, GraphSize)

\* C31: FindLCA(x, y) returns the first digest, in breadth-first order from y over
\* all parents, that is in the ancestor set of x (x included); that digest is an
\* ancestor of x and of y; and NoCommonAncestor is returned exactly when the two
\* ancestor sets share nothing.
C31_FindLCAFirstCommon ==
    Asked("FindLCA") =>
        LET order == BreadthFirst(objects, query.b)
            common == {i \in DOMAIN order : order[i] \in AncestorSet(objects, query.a)}
        IN  /\ (answer.res.err = "NoCommonAncestor")
                  = (AncestorSet(objects, query.a) \cap AncestorSet(objects, query.b) = {})
            /\ answer.res.err \in {"", "NoCommonAncestor"}
            /\ answer.res.err = "" =>
                  /\ common # {}
                  /\ \E i \in common : /\ answer.res.hash = order[i]
                                       /\ \A j \in common : i <= j
                  /\ answer.res.hash \in AncestorSet(objects, query.a)
                  /\ answer.res.hash \in AncestorSet(objects, query.b)

\* y is a merge commit; the commit found is on the side of its second parent, while a
\* common ancestor lies behind its first parent too
C31_Witness ==
    /\ Asked("FindLCA")
    /\ answer.res.err = ""
    /\ HasCommit(objects, query.b)
    /\ Len(query.b.Parents) = 2
    /\ answer.res.hash = query.b.Parents[2]
    /\ AncestorSet(objects, query.a) \cap AncestorSet(objects, query.b.Parents[1]) # {}
    /\ query.b.Parents[2] \notin AncestorSet(objects, query.b.Parents[1])

(***************************************************************************)
(* internal/merge: the MERGE_STATE file (StateSpec).  SaveMergeState runs   *)
(* one system call at a time; LoadMergeState and ClearMergeState run       *)
(* between them.                                                           *)
(***************************************************************************)
\* the states saved: one per branch merged and strategy
SavedStates ==
    {MergeStateRecord(b, ZeroHash, ZeroHash, ZeroHash, s, <<>>, <<>>) :
        b \in BranchNames, s \in {"recursive", "ours"}}

\* what a file of .asl holds: no file, or the indented JSON of a state up to some
\* point
NoFile == [type |-> "nofile"]
Marshalled(state, upTo) == [type |-> "json", state |-> state, upTo |-> upTo]

StateFile == "MERGE_STATE"

\* a save that writes MERGE_STATE in place
tempFileInPlace(stateFile) == stateFile

\* tempFile := stateFile + ".tmp"
tempFile(stateFile) == stateFile \o ".tmp"

\* os.Rename(from, to)
Rename(files, from, to) ==
    [f \in DOMAIN files |->
        IF f = to THEN files[from] ELSE IF f = from THEN NoFile ELSE files[f]]

\* os.Remove(name)
Remove(files, name) == [f \in DOMAIN files |-> IF f = name THEN NoFile ELSE files[f]]

Loaded(err, state) == [err |-> err, state |-> state]

\* LoadMergeState: read MERGE_STATE and parse it
LoadMergeState(files) ==
    IF files[StateFile] = NoFile THEN Loaded("NoMergeInProgress", NoMergeState)
    ELSE IF files[StateFile].upTo # FileFull
         THEN Loaded("failed to parse merge state", NoMergeState)
         ELSE Loaded("", files[StateFile].state)

Saver(pc, state, res) == [pc |-> pc, d |-> state, res |-> res]

StateInit ==
    /\ objects = {}
    /\ refs = [b \in BranchNames |-> NoRef]
    /\ HEAD = SymbolicHead("main")
    /\ mergeState = NoMergeState
    /\ workdir = [p \in WorkPaths |-> Absent]
    /\ last = NoOp
    /\ mIn = LabIdle
    /\ mFwd = NotRun
    /\ mRev = NotRun
    /\ disk = [f \in {StateFile, tempFile(StateFile)} |-> NoFile]
    /\ cache = {}
    /\ returned = {}
    /\ refFile = NoRef
    /\ callers = <<Saver("idle", NoMergeState, "")>>
    /\ PeerIdle

stateFrame == <<repoVars, labVars, cache, returned, refFile, peerVars>>

\* SaveMergeState(repoPath, state) is called; the state marshals
SaveMergeStateCall ==
    /\ callers[1].pc \in {"idle", "done"}
    /\ \E state \in SavedStates : callers' = <<Saver("WriteFile", state, "")>>
    /\ UNCHANGED <<disk, last, stateFrame>>

\* os.WriteFile(tempFile, data, 0644) writes all of data
SaveWriteFile ==
    /\ callers[1].pc = "WriteFile"
    /\ disk' = [disk EXCEPT ![tempFile(StateFile)] = Marshalled(callers[1].d, FileFull)]
    /\ callers' = <<Saver("Rename", callers[1].d, "")>>
    /\ UNCHANGED <<last, stateFrame>>

\* os.WriteFile fails: before it opens the file, or with the file truncated and
\* none or part of data written; SaveMergeState returns the error
SaveWriteFileFails ==
    /\ callers[1].pc = "WriteFile"
    /\ \E upTo \in {FileNone, FileEmpty, FilePartial} :
          disk' = IF upTo = FileNone THEN disk
                  ELSE [disk EXCEPT ![tempFile(StateFile)] = Marshalled(callers[1].d, upTo)]
    /\ callers' = <<Saver("done", callers[1].d, "failed to write temp merge state")>>
    /\ UNCHANGED <<last, stateFrame>>

\* os.Rename(tempFile, stateFile) succeeds; SaveMergeState returns nil
SaveRename ==
    /\ callers[1].pc = "Rename"
    /\ disk' = Rename(disk, tempFile(StateFile), StateFile)
    /\ callers' = <<Saver("done", callers[1].d, "ok")>>
    /\ UNCHANGED <<last, stateFrame>>

\* os.Rename fails; os.Remove(tempFile) runs, its error ignored
SaveRenameFails ==
    /\ callers[1].pc = "Rename"
    /\ \E removed \in BOOLEAN :
          disk' = IF removed THEN Remove(disk, tempFile(StateFile)) ELSE disk
    /\ callers' = <<Saver("done", callers[1].d, "failed to save merge state")>>
    /\ UNCHANGED <<last, stateFrame>>

\* LoadMergeState(repoPath), at any point of a save
LoadMergeStateCall ==
    /\ last' = Op("LoadMergeState", <<callers[1]>>, LoadMergeState(disk))
    /\ UNCHANGED <<disk, callers, stateFrame>>

\* ClearMergeState(repoPath), between saves
ClearMergeStateCall ==
    /\ callers[1].pc \in {"idle", "done"}
    /\ disk' = Remove(disk, StateFile)
    /\ last' = Op("ClearMergeState", <<callers[1]>>, "ok")
    /\ UNCHANGED <<callers, stateFrame>>

StateNext ==
    \/ SaveMergeStateCall
    \/ SaveWriteFile
    \/ SaveWriteFileFails
    \/ SaveRename
    \/ SaveRenameFails
    \/ LoadMergeStateCall
    \/ ClearMergeStateCall

StateSpec == StateInit /\ [][StateNext]_vars

\* C32: LoadMergeState never finds a truncated record; a step of a save that
\* fails, or that has not renamed yet, leaves what LoadMergeState returns as it
\* was (the previous complete state or NoMergeInProgress); and a save that
\* returns nil leaves no temporary file and the saved state in MERGE_STATE.
C32_SaveIsAtomic ==
    /\ [](/\ LoadMergeState(disk).err \in {"", "NoMergeInProgress"}
          /\ last.op = "LoadMergeState" =>
                /\ last.res.err \in {"", "NoMergeInProgress"}
                /\ last.res.err = "" => last.res.state \in SavedStates)
    /\ [][(callers' # callers /\ callers'[1].res # "ok") =>
            LoadMergeState(disk') = LoadMergeState(disk)]_vars
    /\ [][(callers[1].pc = "Rename" /\ callers'[1].res = "ok") =>
            /\ disk'[tempFile(StateFile)] = NoFile
            /\ LoadMergeState(disk') = Loaded("", callers[1].d)]_vars

\* a save of another state failed with part of the temporary file written, and
\* the LoadMergeState after it returned the state saved before
C32_Witness ==
    /\ last.op = "LoadMergeState"
    /\ last.arg[1].pc = "done"
    /\ last.arg[1].res = "failed to write temp merge state"
    /\ last.res.err = ""
    /\ last.res.state # last.arg[1].d
    /\ disk[tempFile(StateFile)] = Marshalled(last.arg[1].d, FilePartial)
    /\ callers[1] = last.arg[1]

(***************************************************************************)
(* internal/repository: the workers of buildTree (BuildSpec).  One          *)
(* goroutine per file sends its result on the channel `results`; another    *)
(* closes the channel when all have returned; buildTree ranges over it.     *)
(***************************************************************************)
BuildPaths == {"f1", "f2", "f3"}

\* the argument of buildTree: any files, in any order
BuildFiles == UNION {Orders(S) : S \in SUBSET BuildPaths}

\* what a worker sends
WorkerResult(entry, err) == [entry |-> entry, err |-> err]
ZeroEntry == TreeEntry("", "", ZeroHash)

\* the steps a worker can fail at
WorkerOutcomes == {"ok", "failed to read", "failed to store", "failed to stat"}

\* results := make(chan result, len(files))
Channel(cap, buf, closed) == [cap |-> cap, buf |-> buf, closed |-> closed]

\* buildTree in its range loop, and back from it
Collector(pc, entries, err, received) ==
    [run |-> TRUE, pc |-> pc, entries |-> entries, err |-> err, received |-> received]

BuildInit ==
    /\ objects = {}
    /\ refs = [b \in BranchNames |-> NoRef]
    /\ HEAD = SymbolicHead("main")
    /\ mergeState = NoMergeState
    /\ workdir = [p \in BuildPaths |-> File(Text(<<p>>, FALSE), p = "f2")]
    /\ last = NoOp
    /\ mIn = LabIdle
    /\ mFwd = NotRun
    /\ mRev = NotRun
    /\ cache = {}
    /\ returned = {}
    /\ refFile = NoRef
    /\ remote = {}
    /\ fetch = NotRun
    /\ \E files \in BuildFiles :
          /\ query = Query("buildTree", files, <<>>)
          /\ callers = [i \in DOMAIN files |-> [pc |-> "run", res |-> WorkerResult(ZeroEntry, "")]]
          /\ disk = Channel(Len(files), <<>>, FALSE)
    /\ answer = Collector("range", <<>>, "", 0)

buildFrame ==
    <<refs, HEAD, mergeState, workdir, last, labVars, cache, returned, refFile, remote,
      fetch, query>>

\* the function of g.Go for files[i], up to its send: ReadFile, PutBlob, Stat
WorkerRuns(i) ==
    /\ i \in DOMAIN callers
    /\ callers[i].pc = "run"
    /\ \E outcome \in WorkerOutcomes :
          LET file == query.a[i]
              hash == HashOf(Blob(workdir[file].data))
          IN  /\ callers' = [callers EXCEPT ![i] =
                    [pc |-> "send",
                     res |-> IF outcome = "ok"
                             THEN WorkerResult(TreeEntry(fileMode(workdir[file]), file, hash), "")
                             ELSE WorkerResult(ZeroEntry, outcome)]]
              /\ objects' = IF outcome \in {"ok", "failed to stat"}
                            THEN Put(objects, Blob(workdir[file].data))
                            ELSE objects
    /\ UNCHANGED <<disk, answer, buildFrame>>

\* results <- result{...}; return nil: the send waits for room in the channel
WorkerSends(i) ==
    /\ i \in DOMAIN callers
    /\ callers[i].pc = "send"
    /\ Len(disk.buf) < disk.cap
    /\ disk' = [disk EXCEPT !.buf = Append(disk.buf, callers[i].res)]
    /\ callers' = [callers EXCEPT ![i].pc = "done"]
    /\ UNCHANGED <<objects, answer, buildFrame>>

\* g.Wait() returns; close(results)
WaitAndClose ==
    /\ ~disk.closed
    /\ \A i \in DOMAIN callers : callers[i].pc = "done"
    /\ disk' = [disk EXCEPT !.closed = TRUE]
    /\ UNCHANGED <<objects, callers, answer, buildFrame>>

\* the range loop receives an entry and appends it
CollectEntry ==
    /\ answer.pc = "range"
    /\ disk.buf # <<>>
    /\ Head(disk.buf).err = ""
    /\ disk' = [disk EXCEPT !.buf = Tail(disk.buf)]
    /\ answer' = Collector("range", Append(answer.entries, Head(disk.buf).entry), "",
                           answer.received + 1)
    /\ UNCHANGED <<objects, callers, buildFrame>>

\* the range loop receives an error: return nil, res.err
CollectError ==
    /\ answer.pc = "range"
    /\ disk.buf # <<>>
    /\ Head(disk.buf).err # ""
    /\ disk' = [disk EXCEPT !.buf = Tail(disk.buf)]
    /\ answer' = Collector("return", <<>>, Head(disk.buf).err, answer.received + 1)
    /\ UNCHANGED <<objects, callers, buildFrame>>

\* the channel is closed and empty: return tree, nil
CollectClosed ==
    /\ answer.pc = "range"
    /\ disk.buf = <<>>
    /\ disk.closed
    /\ answer' = Collector("return", answer.entries, "", answer.received)
    /\ UNCHANGED <<objects, callers, disk, buildFrame>>

BuildNext ==
    \/ \E i \in DOMAIN callers : WorkerRuns(i)
    \/ \E i \in DOMAIN callers : WorkerSends(i)
    \/ WaitAndClose
    \/ CollectEntry
    \/ CollectError
    \/ CollectClosed

\* every goroutine that can run does run
BuildSpec ==
    /\ BuildInit
    /\ [][BuildNext]_vars
    /\ \A i \in 1..Cardinality(BuildPaths) : WF_vars(WorkerRuns(i)) /\ WF_vars(WorkerSends(i))
    /\ WF_vars(WaitAndClose)
    /\ WF_vars(CollectEntry \/ CollectError \/ CollectClosed)

\* no worker stays blocked on the channel, and buildTree returns
BuildTerminates ==
    /\ <>[](\A i \in DOMAIN callers : callers[i].pc = "done")
    /\ <>(answer.pc = "return")

\* C33: buildTree returns an error only after it has received the results of all
\* its workers, no worker stays blocked on the result channel, and the collector
\* terminates.
C33_ErrorAfterDrain ==
    /\ []((answer.pc = "return" /\ answer.err # "") => answer.received = Len(query.a))
    /\ BuildTerminates

(***************************************************************************)
(* ThreeWayMerge on one region (checked under MergeSpec, at the path f1).  *)
(***************************************************************************)
\* base, ours and theirs are texts whose lines all belong to one region: base is
\* empty, or the three are single lines
OneRegion(base, ours, theirs) ==
    \/ Len(base.lines) = 0
    \/ Len(base.lines) = 1 /\ Len(ours.lines) = 1 /\ Len(theirs.lines) = 1

\* C34: ThreeWayMerge reports a conflict whenever ours and theirs differ from base
\* and from each other on the same region, also when base is empty and the two
\* sides add different content.
C34_ConflictOnSameRegion ==
    (/\ mFwd.run
     /\ "f1" \in DOMAIN mIn.base \cap DOMAIN mIn.ours \cap DOMAIN mIn.theirs
     /\ "f1" \in DOMAIN mFwd.result.outcomes) =>
        \E b \in {mIn.base["f1"].data}, o \in {mIn.ours["f1"].data},
           t \in {mIn.theirs["f1"].data} :
            (/\ ~isBinary(b) /\ ~isBinary(o) /\ ~isBinary(t)
             /\ o.lines # b.lines /\ t.lines # b.lines /\ o.lines # t.lines
             /\ OneRegion(b, o, t)) =>
                /\ ThreeWayMerge(b, o, t).HasConflict
                /\ mFwd.result.outcomes["f1"].kind = "conflict"

(***************************************************************************)
(* Completing a merge (ResumeSpec).  The repository holds a base commit    *)
(* and one commit each on main and on feature on top of it, over the files *)
(* f1 and f2; HEAD is on main, with main's tree checked out.               *)
(***************************************************************************)
ResumeCommits == 5   \* commit objects the repository may hold in ResumeSpec

\* what the three commits hold at f1 (the base a, main b, feature a or c) and at f2
\* (each side as the base, or b and executable)
ResumeTexts == {Text(<<l>>, FALSE) : l \in {"a", "c"}}
ResumeBases == {Absent, File(Text(<<"a">>, FALSE), FALSE)}
ResumeFiles == {Absent, File(Text(<<"a">>, FALSE), FALSE), File(Text(<<"b">>, FALSE), TRUE)}

\* the tree and the commit Save makes of a working tree
SavedTree(wd) == buildTree(wd, Restrict(<<"f1", "f2">>, listAllFiles(wd)))
SavedCommit(wd, parents) == Commit(HashOf(SavedTree(wd)), parents, now, "m")

Snapshot(wd) == {SavedTree(wd)} \cup treeBlobs(SavedTree(wd))

ResumeInit ==
    /\ \E o1 \in {Text(<<"b">>, FALSE)}, t1 \in ResumeTexts, b2 \in ResumeBases,
          o2, t2 \in ResumeFiles :
          \E b \in {[p \in Paths |-> IF p = "f1" THEN File(Text(<<"a">>, FALSE), FALSE) ELSE b2]},
             o \in {[p \in Paths |-> IF p = "f1" THEN File(o1, FALSE) ELSE o2]},
             t \in {[p \in Paths |-> IF p = "f1" THEN File(t1, FALSE) ELSE t2]} :
              \E base \in {SavedCommit(b, <<>>)} :
                  /\ objects = Snapshot(b) \cup Snapshot(o) \cup Snapshot(t)
                               \cup {base, SavedCommit(o, <<base>>), SavedCommit(t, <<base>>)}
                  /\ refs = [n \in BranchNames |->
                                IF n = "main" THEN SavedCommit(o, <<base>>)
                                ELSE SavedCommit(t, <<base>>)]
                  /\ workdir = o
                  /\ o2 \in {b2, File(Text(<<"b">>, FALSE), TRUE)}
                  /\ t2 \in {b2, File(Text(<<"b">>, FALSE), TRUE)}
    /\ HEAD = SymbolicHead("main")
    /\ mergeState = NoMergeState
    /\ last = NoOp
    /\ mIn = LabIdle
    /\ mFwd = NotRun
    /\ mRev = NotRun
    /\ DiskIdle
    /\ PeerIdle

ResumeBound(objs) == Cardinality(Commits(objs)) <= ResumeCommits

\* Merge(branch, DefaultOptions)
ResumeMerge ==
    \E branch \in NameInputs, fileOrder \in Orders(Paths), treeOrder \in Orders(Paths) :
        \E r \in {mergeOp(branch, DefaultOptions, fileOrder, treeOrder)} :
            /\ ResumeBound(r.objects)
            /\ objects' = r.objects
            /\ refs' = r.refs
            /\ mergeState' = r.mergeState
            /\ workdir' = r.workdir
            /\ last' = Op("Merge", <<branch, DefaultOptions, CurrentTip>>, r.res)
            /\ UNCHANGED <<HEAD, labVars, otherVars>>

\* the resolve command
ResumeResolve ==
    \E path \in Paths :
        \E r \in {resolveOp(path)} :
            /\ mergeState' = r.mergeState
            /\ last' = Op("Resolve", <<path>>, r.res)
            /\ UNCHANGED <<objects, refs, HEAD, workdir, labVars, otherVars>>

\* Save(nil, message), its workers finishing in the order of the paths
ResumeSave ==
    \E message \in Messages, order \in {<<"f1", "f2">>} :
        \E r \in {saveOp(message, order)} :
            /\ ResumeBound(r.objects)
            /\ objects' = r.objects
            /\ refs' = r.refs
            /\ last' = Op("Save", <<order>>, r.res)
            /\ UNCHANGED <<HEAD, mergeState, workdir, labVars, otherVars>>

\* ContinueMerge()
ResumeContinue ==
    \E order \in Orders(Paths) :
        \E r \in {continueMergeOp(order)} :
            /\ ResumeBound(r.objects)
            /\ objects' = r.objects
            /\ refs' = r.refs
            /\ mergeState' = r.mergeState
            /\ last' = Op("ContinueMerge", <<mergeState>>, r.res)
            /\ UNCHANGED <<HEAD, workdir, labVars, otherVars>>

ResumeNext ==
    \/ ResumeMerge
    \/ ResumeResolve
    \/ ResumeSave
    \/ ResumeContinue
    \/ AbortMerge
    \/ SwitchBranch

ResumeSpec == ResumeInit /\ [][ResumeNext]_vars

\* C35: whenever Save, Merge, ContinueMerge, AbortMerge, CreateBranch or
\* SwitchBranch moves a branch ref that held a commit, the old tip is an ancestor
\* of the new tip, so every commit that was a tip of the branch stays reachable
\* from its current tip.
C35_TipsMoveForward ==
    [][\A b \in BranchNames :
          (HasCommit(objects, refs[b]) /\ refs'[b] # refs[b]) =>
              refs[b] \in ReachedWithin(objects', {refs'[b]}, ResumeCommits)]_vars

\* the file map the tree-level merge of a stored merge state selected
Selected(state) ==
    LET baseFiles == buildFileMap(state.BaseCommit.Tree)
        ourFiles == buildFileMap(state.OurCommit.Tree)
        theirFiles == buildFileMap(state.TheirCommit.Tree)
    IN  mergeTrees(baseFiles, ourFiles, theirFiles,
                   CHOOSE o \in Orders(allFiles(baseFiles, ourFiles, theirFiles)) : TRUE).mergedFiles

\* C36: when ContinueMerge completes a conflicted merge, the tree of the merge
\* commit holds every path recorded in auto_merged with the blob the tree-level
\* merge selected for it.
C36_AutoMergedKept ==
    [][(/\ last'.op = "ContinueMerge"
        /\ last'.res = "ok"
        /\ mergeState # NoMergeState
        /\ HEAD.kind = "ref") =>
            \E tree \in {buildFileMap(refs'[HEAD.name].Tree)} :
                \A i \in DOMAIN mergeState.AutoMerged :
                    /\ mergeState.AutoMerged[i] \in DOMAIN tree
                    /\ tree[mergeState.AutoMerged[i]] =
                           Selected(mergeState)[mergeState.AutoMerged[i]]]_vars

\* the mode a tree records for a name
ModeAt(tree, name) ==
    LET idx == CHOOSE i \in DOMAIN tree.Entries :
                    /\ tree.Entries[i].Name = name
                    /\ \A j \in DOMAIN tree.Entries : tree.Entries[j].Name = name => j <= i
    IN  tree.Entries[idx].Mode

\* C40: in the tree of the merge commit of a conflict-free three-way merge, every
\* path whose blob was taken from ours or from theirs carries the mode it has in that
\* side's tree.
C40_ModesKept ==
    [][(/\ last'.op = "Merge"
        /\ last'.res = "merged"
        /\ HEAD.kind = "ref") =>
            \E ours \in {refs[HEAD.name]}, theirs \in {refs[last'.arg[1]]},
               merged \in {refs'[HEAD.name]} :
                \E m \in {Selected([BaseCommit |-> FindLCA(objects, ours, theirs).hash,
                                    OurCommit |-> ours, TheirCommit |-> theirs])} :
                    \A p \in DOMAIN m :
                        /\ (p \in DOMAIN buildFileMap(ours.Tree)
                            /\ m[p] = buildFileMap(ours.Tree)[p]
                            /\ (p \notin DOMAIN buildFileMap(theirs.Tree)
                                \/ m[p] # buildFileMap(theirs.Tree)[p]))
                              => ModeAt(merged.Tree, p) = ModeAt(ours.Tree, p)
                        /\ (p \in DOMAIN buildFileMap(theirs.Tree)
                            /\ m[p] = buildFileMap(theirs.Tree)[p]
                            /\ (p \notin DOMAIN buildFileMap(ours.Tree)
                                \/ m[p] # buildFileMap(ours.Tree)[p]))
                              => ModeAt(merged.Tree, p) = ModeAt(theirs.Tree, p)]_vars

(***************************************************************************)
(* internal/transfer: a Fetch repeated after a failure (RetrySpec).        *)
(***************************************************************************)
\* Fetch has returned an error; the caller calls it again with the same tips
FetchRetry ==
    /\ fetch.run
    /\ fetch.status = "error"
    /\ fetch' = Fetching(fetch.tips, {}, fetch.tips)
    /\ last' = Op("Fetch", <<fetch.tips>>, "error")
    /\ UNCHANGED <<objects, refs, HEAD, mergeState, workdir, labVars, diskVars, query, answer,
                   remote>>

RetryNext ==
    \/ FetchCall
    \/ FetchLoop
    \/ FetchRetry

RetrySpec == FetchInit /\ [][RetryNext]_vars /\ WF_vars(FetchLoop)

\* C37: when a Fetch has failed part-way and a later Fetch of the same tips returns
\* success, the local store holds every object reachable from those tips.
C37_RetryCompletes ==
    (/\ fetch.run
     /\ fetch.status = "ok"
     /\ last = Op("Fetch", <<fetch.tips>>, "error")) =>
        ReachedFrom(fetch.tips) \subseteq objects

(***************************************************************************)
(* internal/auth: the authenticators, and a server built with one          *)
(* (AuthSpec).  `query` holds the authenticator the server was constructed *)
(* with; a request carries an Authorization header or none.                *)
(***************************************************************************)
NoneAuth == [type |-> "none"]
BasicAuth(username, password) == [type |-> "basic", Username |-> username, Password |-> password]
TokenAuth(token) == [type |-> "token", Token |-> token]

\* the Authorization header of a request
NoCredentials == [scheme |-> "none"]
Basic(username, password) == [scheme |-> "Basic", user |-> username, pass |-> password]
Bearer(token) == [scheme |-> "Bearer", token |-> token]

Authenticators == {BasicAuth("u", "p"), TokenAuth("t")}
Credentials == {NoCredentials, Basic("u", "p"), Basic("u", "x"), Bearer("t")}

\* the requests sent: GET and POST on every route, for the branches
AuthRequests ==
    {r \in Requests : r.method \in {"GET", "POST"} /\ r.name \in BranchNames \cup {""}}

\* Authenticate(r): NoneAuth leaves the request alone; BasicAuth and TokenAuth set
\* the request's Authorization header to their own credentials; all return nil
Authenticate(auth, header) ==
    IF auth.type = "basic"
    THEN [err |-> "", header |-> Basic(auth.Username, auth.Password)]
    ELSE IF auth.type = "token" THEN [err |-> "", header |-> Bearer(auth.Token)]
    ELSE [err |-> "", header |-> header]

\* the header carries the credentials the authenticator was configured with
Configured(auth, header) ==
    \/ auth.type = "basic" /\ header = Basic(auth.Username, auth.Password)
    \/ auth.type = "token" /\ header = Bearer(auth.Token)

\* NewServer(store, refs, auth)
AuthInit ==
    /\ objects = {}
    /\ refs = [b \in ServerRefNames |-> NoRef]
    /\ HEAD = SymbolicHead("main")
    /\ mergeState = NoMergeState
    /\ workdir = [p \in WorkPaths |-> Absent]
    /\ last = NoOp
    /\ mIn = LabIdle
    /\ mFwd = NotRun
    /\ mRev = NotRun
    /\ DiskIdle
    /\ query \in {[auth |-> a] : a \in Authenticators}
    /\ answer = NotRun
    /\ remote = {}
    /\ fetch = NotRun

\* one request with its header, from its arrival to the response
AuthServeHTTP ==
    \E r \in AuthRequests, header \in Credentials :
        \E a \in {Authenticate(query.auth, header)} :
            \E w \in {serveHTTP(objects, refs, HEAD, r, a.err # "", 0, FALSE)} :
                /\ objects' = w.objects
                /\ refs' = w.refs
                /\ last' = Op("ServeHTTP", <<r, header>>, [status |-> w.status, body |-> w.body])
                /\ UNCHANGED <<HEAD, mergeState, workdir, labVars, otherVars>>

AuthNext == AuthServeHTTP

AuthSpec == AuthInit /\ [][AuthNext]_vars

\* C38: a server constructed with a BasicAuth or TokenAuth authenticator answers
\* 401, and changes neither the store nor the refs, for every request that carries
\* no credentials or credentials other than the configured ones.
C38_CredentialsChecked ==
    [][(/\ Served'
        /\ last' # last
        /\ query.auth.type \in {"basic", "token"}
        /\ ~Configured(query.auth, last'.arg[2])) =>
            /\ last'.res.status = 401
            /\ objects' = objects
            /\ refs' = refs]_vars

(***************************************************************************)
(* internal/transfer: Fetch from a remote that may answer with another     *)
(* object than the one asked for (ForgedSpec).                             *)
(***************************************************************************)
\* an iteration whose FetchObject returns an object of another digest: Put stores it
\* under its own digest, the digest asked for is marked visited, the children of the
\* object received are enqueued.  One answer of a behaviour is of this kind.
FetchForged ==
    /\ InLoop
    /\ last = NoOp
    /\ Head(fetch.queue) \notin fetch.visited
    /\ Head(fetch.queue) \notin objects
    /\ \E obj \in remote \ {Head(fetch.queue)} :
          /\ objects' = Put(objects, obj)
          /\ fetch' = [fetch EXCEPT !.queue = Tail(fetch.queue) \o fetchChildren(obj),
                                    !.visited = fetch.visited \cup {Head(fetch.queue)}]
          /\ last' = Op("FetchObject", <<Head(fetch.queue)>>, obj)
    /\ UNCHANGED <<refs, HEAD, mergeState, workdir, labVars, diskVars, query, answer, remote>>

ForgedNext ==
    \/ FetchCall
    \/ FetchLoop
    \/ FetchForged

ForgedSpec == FetchInit /\ [][ForgedNext]_vars /\ WF_vars(FetchLoop \/ FetchForged)

\* C39: Fetch returns success only if every digest it asked the remote for is in the
\* local store afterwards; an answer of another digest makes Fetch fail.
C39_ReceivedIsRequested ==
    (fetch.run /\ fetch.status = "ok") => fetch.visited \subseteq objects

=============================================================================
